---- MODULE Spec2Model ----
(***************************************************************************)
(* A model of the MalariaPHIS WhatsApp broadcaster                         *)
(* (src/MalariaPHIS_Agent/finalAppTwilio.py): the content fall-back chain  *)
(* of MalariaKnowledgeRetriever, the QualityAssuranceAgent's two           *)
(* validators, the OrchestratorAgent's pipeline (translate, check,         *)
(* synthesize, check, deliver) and the DeliveryAgent's fan-out.            *)
(* Further specifications over the same variables take one component on    *)
(* its own: the validators, get_subscribers, the broadcast job of          *)
(* appMultilingual.py, the /twilio webhook of both programs with the       *)
(* subscriber store, the orchestrator with an injected retriever, two      *)
(* concurrent callers of subscribers.json and of last_sent.txt, the steps  *)
(* of TTSAgent.synthesize with the files of temp_audio, and a fan-out with *)
(* the webhook served at the same time.                                    *)
(*                                                                         *)
(* Representation of Python values:                                        *)
(*   - a str is a sequence of one-character strings;                       *)
(*   - None and the float NaN pandas yields for an empty cell are the      *)
(*     reserved one-element sequences PyNone and NaN, which no text holds; *)
(*   - an f-string label such as f"CSV-{source}" is the tuple of its       *)
(*     fragments, <<"CSV-", source>>;                                      *)
(*   - a dict {"message", "source", "timestamp"} is a record with the      *)
(*     fields message and source (the timestamp is never read).            *)
(* The translation model, the speech model, the network and Twilio are     *)
(* outside the repository: each call to one of them is a choice among the  *)
(* outcomes it can have, an exception included.                            *)
(***************************************************************************)
EXTENDS Integers, Sequences, FiniteSets, TLC

(***************************************************************************)
(* Bounds of the model.                                                    *)
(***************************************************************************)
\* rows of the largest messages.csv sample
MaxRows == 3
\* length of the longest user-submitted news text
MaxUserLen == 2

(***************************************************************************)
(* Python values and str helpers.                                          *)
(***************************************************************************)
PyNone == <<"None">>
NaN == <<"NaN">>

Rep(c, n) == [i \in 1..n |-> c]

IsSpace(c) == c \in {" ", "\n", "\t"}

\* str.strip(): drop leading and trailing whitespace
Strip(s) ==
  IF \A i \in 1..Len(s) : IsSpace(s[i]) THEN <<>>
  ELSE LET lo == CHOOSE i \in 1..Len(s) :
                   ~IsSpace(s[i]) /\ \A j \in 1..(i - 1) : IsSpace(s[j])
           hi == CHOOSE i \in 1..Len(s) :
                   ~IsSpace(s[i]) /\ \A j \in (i + 1)..Len(s) : IsSpace(s[j])
       IN  SubSeq(s, lo, hi)

\* " ".join(parts)
RECURSIVE Join(_)
Join(parts) ==
  IF parts = <<>> THEN <<>>
  ELSE IF Len(parts) = 1 THEN parts[1]
  ELSE parts[1] \o <<" ">> \o Join(Tail(parts))

\* seq[:n]
Take(s, n) == SubSeq(s, 1, IF Len(s) < n THEN Len(s) ELSE n)

\* sub in s
Contains(s, sub) ==
  \E i \in 0..(Len(s) - Len(sub)) : \A k \in 1..Len(sub) : s[i + k] = sub[k]

\* str.lower() on the alphabet of the samples
LowerChar(c) ==
  CASE c = "M" -> "m" [] c = "A" -> "a" [] c = "L" -> "l"
    [] c = "R" -> "r" [] c = "I" -> "i" [] OTHER -> c
Lower(s) == [i \in 1..Len(s) |-> LowerChar(s[i])]

\* BeautifulSoup(content, 'html.parser').get_text(): the text outside <...> tags
RECURSIVE TagFree(_, _)
TagFree(s, inTag) ==
  IF s = <<>> THEN <<>>
  ELSE IF inTag THEN TagFree(Tail(s), Head(s) # ">")
  ELSE IF Head(s) = "<" THEN TagFree(Tail(s), TRUE)
  ELSE <<Head(s)>> \o TagFree(Tail(s), FALSE)
get_text(s) == TagFree(s, FALSE)

(***************************************************************************)
(* MalariaKnowledgeRetriever: the tier helpers.                            *)
(***************************************************************************)
MinMeaningful == 50
MaxContent == 500
MaxParagraphs == 5
MaxEntries == 5
Ellipsis == <<".", ".", ".">>
Keyword == <<"m", "a", "l", "a", "r", "i", "a">>

\* What a tier helper hands back: the value it returns and, as
\* instrumentation, whether its try body raised (threw) and whether the
\* exception left the helper (escaped).
Return(v) == [value |-> v, threw |-> FALSE, escaped |-> FALSE]

\* lines 271-273, 307-309, 347-349 and 374-376: `except Exception as e:`
\* logs and returns None (none is the caller's reading of None)
\* variant: the helper has no handler and the exception leaves it
except_Exception_absent(none) ==
  [value |-> none, threw |-> TRUE, escaped |-> TRUE]
except_Exception(none) ==
  [value |-> none, threw |-> TRUE, escaped |-> FALSE]

\* lines 252-269 (and 288-305): the first 5 <p>, those longer than 50
\* characters once stripped, joined by spaces and cut to 500 + "..."
RECURSIVE Meaningful(_)
Meaningful(paras) ==
  IF paras = <<>> THEN <<>>
  ELSE LET text == Strip(Head(paras))
       IN  (IF Len(text) > MinMeaningful THEN <<text>> ELSE <<>>)
             \o Meaningful(Tail(paras))

ExtractParagraphs(paragraphs) ==
  LET content_parts == Meaningful(Take(paragraphs, MaxParagraphs))
      content == Join(content_parts)
  IN  IF content_parts # <<>>
      THEN IF Len(content) > MaxContent
           THEN Take(content, MaxContent) \o Ellipsis
           ELSE content
      ELSE PyNone

\* a response is [ok |-> FALSE] when requests.get / raise_for_status /
\* the parser raises, else [ok |-> TRUE, paragraphs |-> the page's <p> texts]
fetch_who_malaria_info(resp) ==
  IF ~resp.ok THEN except_Exception(PyNone)
  ELSE Return(ExtractParagraphs(resp.paragraphs))

fetch_fedgen_malaria_info(resp) ==
  IF ~resp.ok THEN except_Exception(PyNone)
  ELSE Return(ExtractParagraphs(resp.paragraphs))

\* lines 331-345: the first malaria entry among the first 5 whose cleaned
\* summary (title when the entry has no summary) is longer than 50
EntryText(e) ==
  (IF e.title = PyNone THEN <<>> ELSE e.title) \o <<" ">>
    \o (IF e.summary = PyNone THEN <<>> ELSE e.summary)

EntryContent(e) ==
  IF e.summary # PyNone THEN e.summary
  ELSE IF e.title # PyNone THEN e.title ELSE <<>>

RECURSIVE ScanEntries(_)
ScanEntries(entries) ==
  IF entries = <<>> THEN PyNone
  ELSE LET entry == Head(entries)
           clean_content == Strip(get_text(EntryContent(entry)))
       IN  IF Contains(Lower(EntryText(entry)), Keyword)
              /\ Len(clean_content) > MinMeaningful
           THEN IF Len(clean_content) > MaxContent
                THEN Take(clean_content, MaxContent) \o Ellipsis
                ELSE clean_content
           ELSE ScanEntries(Tail(entries))

\* a feed is [ok |-> FALSE] when feedparser (or an entry) raises, else
\* [ok |-> TRUE, entries |-> the parsed entries]
fetch_malaria_rss(feed) ==
  IF ~feed.ok THEN except_Exception(PyNone)
  ELSE IF feed.entries = <<>> THEN Return(PyNone)
  ELSE Return(ScanEntries(Take(feed.entries, MaxEntries)))

\* lines 351-376. csv is the messages.csv on disk when it is read:
\* [readable, columns, rows]; idx is random.randint(0, len(df) - 1), which
\* raises (caught at 374) when the file has no rows
NoItem == [message |-> PyNone, source |-> <<>>]

fetch_csv_fallback(csv, idx) ==
  IF ~csv.readable THEN except_Exception(NoItem)
  ELSE IF "message" \notin csv.columns \/ "source" \notin csv.columns
  THEN Return(NoItem)
  ELSE IF Len(csv.rows) = 0 THEN except_Exception(NoItem)
  ELSE Return([message |-> csv.rows[idx + 1].message,
               source |-> <<"CSV-", csv.rows[idx + 1].source>>])

\* lines 220-224
SafeDefaultMessage ==
  <<"M", "a", "l", "a", "r", "i", "a", " ", "i", "s", " ", "a", " ", "l",
    "i", "f", "e", "-", "t", "h", "r", "e", "a", "t", "e", "n", "i", "n",
    "g", " ", "d", "i", "s", "e", "a", "s", "e", " ", "t", "r", "a", "n",
    "s", "m", "i", "t", "t", "e", "d", " ", "b", "y", " ", "A", "n", "o",
    "p", "h", "e", "l", "e", "s", " ", "m", "o", "s", "q", "u", "i", "t",
    "o", "e", "s", ".", " ", "P", "r", "e", "v", "e", "n", "t", "i", "o",
    "n", ":", " ", "U", "s", "e", " ", "i", "n", "s", "e", "c", "t", "i",
    "c", "i", "d", "e", "-", "t", "r", "e", "a", "t", "e", "d", " ", "n",
    "e", "t", "s", ",", " ", "i", "n", "d", "o", "o", "r", " ", "s", "p",
    "r", "a", "y", "i", "n", "g", ",", " ", "a", "n", "d", " ", "a", "n",
    "t", "i", "m", "a", "l", "a", "r", "i", "a", "l", " ", "d", "r", "u",
    "g", "s", ".", " ", "E", "a", "r", "l", "y", " ", "t", "r", "e", "a",
    "t", "m", "e", "n", "t", " ", "w", "i", "t", "h", " ", "a", "r", "t",
    "e", "m", "i", "s", "i", "n", "i", "n", "-", "b", "a", "s", "e", "d",
    " ", "t", "h", "e", "r", "a", "p", "i", "e", "s", " ", "i", "s", " ",
    "c", "r", "i", "t", "i", "c", "a", "l", " ", "f", "o", "r", " ", "r",
    "e", "c", "o", "v", "e", "r", "y", ".">>

Failed == [ok |-> FALSE]

\* what a web source can answer: an error, a page with no paragraph longer
\* than 50, one with a single longer paragraph, one whose text passes 500
WebSamples ==
  [error |-> Failed,
   thin |-> [ok |-> TRUE, paragraphs |-> <<Rep("s", MinMeaningful)>>],
   good |-> [ok |-> TRUE,
             paragraphs |-> <<Rep("s", 7),
                              <<" ">> \o Rep("w", MinMeaningful + 1)
                                \o <<"\n">>>>],
   long |-> [ok |-> TRUE, paragraphs |-> [i \in 1..6 |-> Rep("v", 120)]]]

Entry(title, summary) == [title |-> title, summary |-> summary]

\* what a feed can answer: an error, no entries, or entries of which the
\* third is the first usable malaria entry
FeedSamples ==
  [error |-> Failed,
   empty |-> [ok |-> TRUE, entries |-> <<>>],
   news |-> [ok |-> TRUE,
             entries |->
               << Entry(<<"N", "e", "w", "s">>, Rep("x", 60)),
                  Entry(<<"M", "a", "l", "a", "r", "i", "a">>, PyNone),
                  Entry(<<"M", "A", "L", "A", "R", "I", "A">>,
                        <<"<", "b", ">">> \o Rep("y", MinMeaningful + 1)
                          \o <<"<", "/", "b", ">">>) >>]]

\* a network: which sample each of the four sources answers with
Networks ==
  [who : DOMAIN WebSamples, fedgen : DOMAIN WebSamples,
   who_rss : DOMAIN FeedSamples, fedgen_rss : DOMAIN FeedSamples]

\* each helper's result on each sample, evaluated once
WhoFetched == [k \in DOMAIN WebSamples |-> fetch_who_malaria_info(WebSamples[k])]
FedgenFetched ==
  [k \in DOMAIN WebSamples |-> fetch_fedgen_malaria_info(WebSamples[k])]
RssFetched == [k \in DOMAIN FeedSamples |-> fetch_malaria_rss(FeedSamples[k])]

(***************************************************************************)
(* MalariaKnowledgeRetriever.fetch_malaria_content, lines 149-237.         *)
(* net is what the four network sources answer during this fetch.  The     *)
(* result is the returned dict with, as instrumentation, the tier helpers  *)
(* called, in call order.                                                  *)
(***************************************************************************)
sources_list == <<"WHO", "FEDGEN-PHIS">>

\* line 181: [s for s in sources_list if s != selected_source][0]
\* variant: the filter `if s != selected_source` left out
fallback_source_unfiltered(selected_source) == Head(sources_list)
fallback_source(selected_source) ==
  Head(SelectSeq(sources_list, LAMBDA s : s # selected_source))

\* lines 168-171 and 184-187
FetchPrimary(name, net) ==
  IF name = "WHO" THEN WhoFetched[net.who] ELSE FedgenFetched[net.fedgen]

\* `if content:` on a str or None
Truthy(content) == content # PyNone /\ content # <<>>

\* instrumentation: a tier helper was called, what `if content:` found
\* and whether the helper's body raised
Call(tier, ok) == [tier |-> tier, ok |-> ok, raised |-> FALSE]
CallOf(tier, ok, result) ==
  [tier |-> tier, ok |-> ok, raised |-> result.threw]

Fetched(message, label, calls) ==
  [item |-> [message |-> message, source |-> <<label>>], attempted |-> calls]

\* variant: nothing is returned when every tier failed
SafeDefault_none(calls) == [item |-> NoItem, attempted |-> calls]
SafeDefault(calls) ==
  [item |-> [message |-> SafeDefaultMessage, source |-> <<"SafeDefault">>],
   attempted |-> calls]

\* lines 234-237: an exception reached the handler of fetch_malaria_content,
\* which returns None
RetrievalFailed(calls) == [item |-> NoItem, attempted |-> calls]

\* variant: no early return after the first primary source; the other
\* primary is fetched as well and wins when it has content
fetch_malaria_content_no_return(selected_source, net, csv, idx) ==
  LET first == FetchPrimary(selected_source, net)
      fallback == fallback_source(selected_source)
      second == FetchPrimary(fallback, net)
      tried == <<CallOf(selected_source, Truthy(first.value), first),
                 CallOf(fallback, Truthy(second.value), second)>>
  IN  IF Truthy(second.value) THEN Fetched(second.value, fallback, tried)
      ELSE IF Truthy(first.value)
      THEN Fetched(first.value, selected_source, tried)
      ELSE SafeDefault(tried)

\* Each tier below takes what its helper handed back (content,
\* feed_content, csv_fallback) and the calls made before it.
\* lines 214-232: the tabular file, then the safe default
FromCsv(csv_fallback, tried) ==
  LET calls ==
        Append(tried, CallOf("CSV", csv_fallback.value # NoItem, csv_fallback))
  IN  IF csv_fallback.escaped THEN RetrievalFailed(calls)
      ELSE IF csv_fallback.value # NoItem
      THEN [item |-> csv_fallback.value, attempted |-> calls]
      ELSE SafeDefault(calls)

\* lines 205-212
FromFedgenRss(feed_content, tried, csv, idx) ==
  LET calls ==
        Append(tried,
               CallOf("FEDGEN-RSS", Truthy(feed_content.value), feed_content))
  IN  IF feed_content.escaped THEN RetrievalFailed(calls)
      ELSE IF Truthy(feed_content.value)
      THEN Fetched(feed_content.value, "FEDGEN-RSS", calls)
      ELSE FromCsv(fetch_csv_fallback(csv, idx), calls)

\* lines 196-203
FromWhoRss(feed_content, tried, net, csv, idx) ==
  LET calls ==
        Append(tried,
               CallOf("WHO-RSS", Truthy(feed_content.value), feed_content))
  IN  IF feed_content.escaped THEN RetrievalFailed(calls)
      ELSE IF Truthy(feed_content.value)
      THEN Fetched(feed_content.value, "WHO-RSS", calls)
      ELSE FromFedgenRss(RssFetched[net.fedgen_rss], calls, csv, idx)

\* lines 180-194
FromFallbackSource(content, fallback, tried, net, csv, idx) ==
  LET calls == Append(tried, CallOf(fallback, Truthy(content.value), content))
  IN  IF content.escaped THEN RetrievalFailed(calls)
      ELSE IF Truthy(content.value)
      THEN Fetched(content.value, fallback, calls)
      ELSE FromWhoRss(RssFetched[net.who_rss], calls, net, csv, idx)

\* lines 167-178
FromSelectedSource(content, selected_source, net, csv, idx) ==
  LET calls == <<CallOf(selected_source, Truthy(content.value), content)>>
  IN  IF content.escaped THEN RetrievalFailed(calls)
      ELSE IF Truthy(content.value)
      THEN Fetched(content.value, selected_source, calls)
      ELSE FromFallbackSource(
             FetchPrimary(fallback_source(selected_source), net),
             fallback_source(selected_source), calls, net, csv, idx)

fetch_malaria_content(selected_source, net, csv, idx) ==
  FromSelectedSource(FetchPrimary(selected_source, net), selected_source,
                     net, csv, idx)

(***************************************************************************)
(* OrchestratorAgent._get_broadcast_content, lines 585-623.                *)
(* cursor is last_sent.txt: [exists, value].  The result is the returned   *)
(* dict (NoItem for None), the file as the call leaves it and the tier     *)
(* helpers called.                                                         *)
(***************************************************************************)
\* appTwilio.py lines 89-92, the TESTING_MODE branch: last_index is -1
\* when last_sent.txt does not exist
appTwilio_idx(cursor, n) ==
  LET last_index == IF cursor.exists THEN cursor.value ELSE -1
  IN  (last_index + 1) % n

\* line 612: (int(open(index_file).read()) + 1 if os.path.exists(index_file)
\* else 0) % len(df); appMultilingual.py line 139 is the same expression
\* variants: the `% len(df)` left out; the cursor read but not advanced
cyclic_idx_unwrapped(cursor, n) ==
  IF cursor.exists THEN cursor.value + 1 ELSE 0
cyclic_idx_stuck(cursor, n) ==
  (IF cursor.exists THEN cursor.value ELSE 0) % n
cyclic_idx(cursor, n) ==
  (IF cursor.exists THEN cursor.value + 1 ELSE 0) % n

\* instrumentation: the read of messages.csv behind an item: who made it,
\* the cursor it found, the rows it read (df) and the row index it used
NoCursor == [exists |-> FALSE, value |-> 0]
TabularRead(by, found, df, idx) ==
  [by |-> by, found |-> found, df |-> df, idx |-> idx]
NoRead == TabularRead("none", NoCursor, <<>>, 0)

\* variant: idx is computed and the row returned, last_sent.txt is left
\* for the end of the run to write
CyclicCsv_cursor_unwritten(csv, cursor) ==
  IF ~csv.readable \/ Len(csv.rows) = 0
       \/ "message" \notin csv.columns \/ "source" \notin csv.columns
  THEN [item |-> NoItem, cursor |-> cursor, read |-> NoRead]
  ELSE LET idx == cyclic_idx(cursor, Len(csv.rows))
       IN  [item |-> [message |-> csv.rows[idx + 1].message,
                      source |-> <<csv.rows[idx + 1].source>>],
            cursor |-> cursor,
            read |-> TabularRead("orchestrator", cursor, csv.rows, idx)]

\* lines 603-623: the cyclic read of messages.csv.  With no rows line 612
\* divides by zero before anything is written.
CyclicCsv(csv, cursor) ==
  IF ~csv.readable
  THEN [item |-> NoItem, cursor |-> cursor, read |-> NoRead]
  ELSE IF "message" \notin csv.columns \/ "source" \notin csv.columns
  THEN [item |-> NoItem, cursor |-> cursor, read |-> NoRead]
  ELSE IF Len(csv.rows) = 0
  THEN [item |-> NoItem, cursor |-> cursor, read |-> NoRead]
  ELSE LET idx == cyclic_idx(cursor, Len(csv.rows))
           written == [exists |-> TRUE, value |-> idx]
           read == TabularRead("orchestrator", cursor, csv.rows, idx)
       \* line 613 has written idx when df.loc[idx, ...] raises at 616
       IN  IF idx + 1 \notin DOMAIN csv.rows
           THEN [item |-> NoItem, cursor |-> written, read |-> read]
           ELSE [item |-> [message |-> csv.rows[idx + 1].message,
                           source |-> <<csv.rows[idx + 1].source>>],
                 cursor |-> written, read |-> read]

\* lines 594-600 on what fetch_malaria_content returned (content), else
\* lines 602-623 (cyc)
BroadcastContent(mkr, content, cyc, csv, idx, cursor) ==
  IF mkr /\ content.item # NoItem
  THEN [item |-> content.item, cursor |-> cursor,
        attempted |-> content.attempted,
        read |-> IF content.attempted[Len(content.attempted)]
                      = Call("CSV", TRUE)
                 THEN TabularRead("chain", cursor, csv.rows, idx)
                 ELSE NoRead]
  ELSE [item |-> cyc.item, cursor |-> cyc.cursor,
        attempted |-> IF mkr THEN content.attempted ELSE <<>>,
        read |-> cyc.read]

get_broadcast_content(mkr, selected_source, net, csv, idx, cursor) ==
  BroadcastContent(mkr, fetch_malaria_content(selected_source, net, csv, idx),
                   CyclicCsv(csv, cursor), csv, idx, cursor)

(***************************************************************************)
(* QualityAssuranceAgent, lines 390-468.                                   *)
(***************************************************************************)
IsStr(x) == x # PyNone /\ x # NaN

\* line 413: len(ha_text) < len(en_text) * 0.3, which only prints a warning
translation_warns(en, ha) == Len(ha) * 10 < Len(en) * 3

\* variants: check 2 left out; check 3 returning False instead of warning
validate_translation_unchecked_identity(en, ha) ==
  IF ha = PyNone \/ ha = <<>> THEN FALSE
  ELSE IF ~IsStr(ha) THEN FALSE
  ELSE IF Len(Strip(ha)) = 0 THEN FALSE
  ELSE IF ~IsStr(en) THEN FALSE
  ELSE TRUE
validate_translation_short_fails(en, ha) ==
  IF ha = PyNone \/ ha = <<>> THEN FALSE
  ELSE IF ~IsStr(ha) THEN FALSE
  ELSE IF Len(Strip(ha)) = 0 THEN FALSE
  ELSE IF ~IsStr(en) THEN FALSE
  ELSE IF Strip(ha) = Strip(en) THEN FALSE
  ELSE IF translation_warns(en, ha) THEN FALSE
  ELSE TRUE

\* lines 401-421.  A non-str text (NaN from an empty csv cell) makes
\* .strip() raise, which line 419 turns into False.
validate_translation(en, ha) ==
  IF ha = PyNone \/ ha = <<>> THEN FALSE
  ELSE IF ~IsStr(ha) THEN FALSE
  ELSE IF Len(Strip(ha)) = 0 THEN FALSE
  ELSE IF ~IsStr(en) THEN FALSE
  ELSE IF Strip(ha) = Strip(en) THEN FALSE
  ELSE TRUE

MinAudioBytes == 100
\* min_audio_duration (1.0 s), in the milliseconds len(audio) counts
MinAudioMs == 1000

\* variants: the duration is not compared with the minimum; a file that
\* cannot be decoded is rejected
validate_audio_any_duration(file) ==
  IF ~file.exists THEN FALSE
  ELSE IF file.size < MinAudioBytes THEN FALSE
  ELSE TRUE
validate_audio_strict(file) ==
  IF ~file.exists THEN FALSE
  ELSE IF file.size < MinAudioBytes THEN FALSE
  ELSE IF ~file.decodable THEN FALSE
  ELSE IF file.ms < MinAudioMs THEN FALSE
  ELSE TRUE

\* lines 433-468.  file is the artifact temp_audio/<mp3_filename> as the
\* validator finds it: [exists, size, decodable, ms].
validate_audio(file) ==
  IF ~file.exists THEN FALSE
  ELSE IF file.size < MinAudioBytes THEN FALSE
  ELSE IF ~file.decodable THEN TRUE
  ELSE IF file.ms < MinAudioMs THEN FALSE
  ELSE TRUE

(***************************************************************************)
(* Subscriber store and DeliveryAgent.get_subscribers, lines 35-63 and     *)
(* 102-110.  A store is a function from addresses to [present,             *)
(* unsubscribed]; an address is <<channel prefix, number>>.                *)
(***************************************************************************)
Phones ==
  {<<"whatsapp:", "+1">>, <<"whatsapp:", "+2">>, <<"", "+3">>,
   <<"whatsapp:", "+4">>, <<"whatsapp:", "+5">>}

\* lines 61-63
get_active_subscribers(data) ==
  {p \in Phones : data[p].present /\ ~data[p].unsubscribed}

\* variant: the transport's history is not consulted
get_subscribers_local_only(listing, data) == get_active_subscribers(data)

\* lines 103-110.  listing is [ok |-> FALSE] when client.messages.list
\* raises, else [ok |-> TRUE, from |-> the senders of the listed messages]
get_subscribers(listing, data) ==
  IF ~listing.ok THEN {}
  ELSE LET active_twilio == {m \in listing.from : m[1] = "whatsapp:"}
           local_active == get_active_subscribers(data)
       IN  active_twilio \cap local_active

(***************************************************************************)
(* What the collaborators outside the repository can answer.               *)
(***************************************************************************)
Letters == <<"A", "B", "C", "D", "E">>
Row(i) == [message |-> <<Letters[i]>>, source |-> "sheet"]
FullCsv(n) ==
  [readable |-> TRUE, columns |-> {"message", "source"},
   rows |-> [i \in 1..n |-> Row(i)]]

CsvFiles ==
  { [readable |-> FALSE, columns |-> {}, rows |-> <<>>],
    [readable |-> TRUE, columns |-> {"message"}, rows |-> <<>>],
    FullCsv(0), FullCsv(1), FullCsv(MaxRows),
    [readable |-> TRUE, columns |-> {"message", "source"},
     rows |-> <<[message |-> NaN, source |-> "sheet"]>>] }

RandomIdx(csv) ==
  IF Len(csv.rows) = 0 THEN {0} ELSE 0..(Len(csv.rows) - 1)

\* the news a user submits: `incoming[len(prefix):].strip()`, not empty
UserTexts == {Rep("a", n) : n \in 1..MaxUserLen}

\* translator.translate(en_text): it raises, or returns some str
Raised == [raised |-> TRUE, value |-> <<>>]
Returned(v) == [raised |-> FALSE, value |-> v]

TranslateOutcomes(en) ==
  {Raised, Returned(<<" ">>), Returned(<<"h", "a">>)}
    \cup (IF IsStr(en) THEN {Returned(en)} ELSE {})

\* tts_agent.synthesize(ha_text): it raises, or returns the name of an mp3,
\* which the validator then finds in one of these conditions
AudioFile(exists, size, decodable, ms) ==
  [exists |-> exists, size |-> size, decodable |-> decodable, ms |-> ms]
NoAudio == [id |-> 0, file |-> AudioFile(FALSE, 0, FALSE, 0)]

AudioFiles ==
  { AudioFile(FALSE, 0, FALSE, 0),
    AudioFile(TRUE, 0, FALSE, 0),
    AudioFile(TRUE, MinAudioBytes - 1, TRUE, MinAudioMs),
    AudioFile(TRUE, MinAudioBytes, FALSE, 0),
    AudioFile(TRUE, 5000, TRUE, MinAudioMs - 1),
    AudioFile(TRUE, 5000, TRUE, MinAudioMs) }

SynthOutcomes == {Raised} \cup {Returned(f) : f \in AudioFiles}

\* client.messages.list(to=from_number): it raises, or lists messages
Listings ==
  {Failed} \cup {[ok |-> TRUE, from |-> s] : s \in SUBSET Phones}

\* subscribers.json when the process starts
InitialStore ==
  [p \in Phones |->
     CASE p[2] = "+4" -> [present |-> TRUE, unsubscribed |-> TRUE]
       [] p[2] = "+5" -> [present |-> FALSE, unsubscribed |-> FALSE]
       [] OTHER -> [present |-> TRUE, unsubscribed |-> FALSE]]

(***************************************************************************)
(* State.  One pipeline run at a time: pc is the position of the run in    *)
(* auto_broadcast / process_message / DeliveryAgent.broadcast.             *)
(***************************************************************************)
VARIABLES
  pc,            \* position of the run
  qa_agent,      \* OrchestratorAgent.qa_agent is not None
  mkr_agent,     \* OrchestratorAgent.mkr_agent is not None
  subscribers,   \* subscribers.json
  handled,       \* the webhook requests handled so far, oldest first
  threads,       \* concurrent callers of the two shared files
  last_sent,     \* last_sent.txt: [exists, value]
  content_data,  \* auto_broadcast: what _get_broadcast_content returned
  attempted,     \* tier helpers the last fetch_malaria_content called
  csv_read,      \* the read of messages.csv behind content_data
  en_text,       \* process_message's arguments
  source,
  ha_text,       \* process_message's locals
  mp3_filename,
  full_text,
  audio_url,
  all_msgs,      \* get_subscribers: <<what client.messages.list returned>>
  recipients,    \* DeliveryAgent.broadcast: what get_subscribers returned
  pending,       \* DeliveryAgent.broadcast: recipients still to visit
  returned,      \* what the entry point returned: "none", "True", "False"
  \* what happened during the run
  nTranslate,    \* calls of translator.translate
  nSynth,        \* calls of tts_agent.synthesize
  synth_input,   \* the text the last synthesize call was given
  trChecks,      \* results of validate_translation, in order
  auChecks,      \* results of validate_audio, in order
  stages,        \* the stages entered, in order
  error,         \* the except branch of process_message ran
  broadcasts,    \* calls of delivery_agent.broadcast
  sent,          \* <<recipient, "text" | "media">> messages created
  create_calls,  \* <<recipient, "text" | "media">> messages.create calls made
  temp_audio     \* the files of the temp_audio directory

vars ==
  <<pc, qa_agent, mkr_agent, handled, threads, subscribers, last_sent,
    temp_audio, content_data,
    attempted, csv_read,
    en_text, source, ha_text, mp3_filename, full_text, audio_url, all_msgs,
    recipients, pending,
    returned, nTranslate, nSynth, synth_input, trChecks, auChecks, stages,
    error, broadcasts, sent, create_calls>>

config == <<qa_agent, mkr_agent>>
webhook == <<handled, threads>>
locals ==
  <<ha_text, mp3_filename, full_text, audio_url, all_msgs, recipients,
    pending>>
args == <<en_text, source>>
history ==
  <<nTranslate, nSynth, synth_input, trChecks, auChecks, error, broadcasts,
    sent, create_calls>>

NoFullText == [en |-> PyNone, source |-> <<>>, ha |-> PyNone]
NoUrl == [base |-> "", path |-> "", name |-> 0]

\* no request handled, no concurrent caller
NoThreads == <<>>
Quiet == handled = <<>> /\ threads = NoThreads

\* the state between two runs
Fresh ==
  /\ content_data = NoItem
  /\ attempted = <<>>
  /\ csv_read = NoRead
  /\ en_text = PyNone
  /\ source = <<>>
  /\ ha_text = PyNone
  /\ mp3_filename = NoAudio
  /\ full_text = NoFullText
  /\ audio_url = NoUrl
  /\ all_msgs = <<>>
  /\ recipients = {}
  /\ pending = {}
  /\ returned = "none"
  /\ nTranslate = 0
  /\ nSynth = 0
  /\ synth_input = PyNone
  /\ trChecks = <<>>
  /\ auChecks = <<>>
  /\ stages = <<>>
  /\ error = FALSE
  /\ broadcasts = 0
  /\ sent = {}
  /\ create_calls = {}

Init ==
  /\ pc = "idle"
  /\ qa_agent \in BOOLEAN
  /\ mkr_agent \in BOOLEAN
  /\ subscribers = InitialStore
  /\ Quiet
  /\ last_sent = NoCursor
  /\ Fresh
  /\ temp_audio = {}

(***************************************************************************)
(* OrchestratorAgent.auto_broadcast, lines 497-517.                        *)
(***************************************************************************)
\* what the call at line 508 leaves behind
Acquired(got) ==
  /\ content_data' = got.item
  /\ attempted' = got.attempted
  /\ csv_read' = got.read
  /\ last_sent' = got.cursor

\* line 508: content_data = self._get_broadcast_content()
AutoBroadcast ==
  /\ pc = "idle"
  /\ \E selected_source \in {"WHO", "FEDGEN-PHIS"}, net \in Networks,
        csv \in CsvFiles :
       \E idx \in RandomIdx(csv) :
         Acquired(get_broadcast_content(mkr_agent, selected_source, net,
                                        csv, idx, last_sent))
  /\ pc' = "acquired"
  /\ stages' = <<"ACQUIRE_CONTENT">>
  /\ UNCHANGED <<config, temp_audio, webhook, subscribers, args, locals, returned, history>>

\* variant: the run without content reports success
NoContent_reports_success ==
  /\ pc = "acquired"
  /\ content_data = NoItem
  /\ pc' = "done"
  /\ returned' = "True"
  /\ UNCHANGED <<config, temp_audio, webhook, subscribers, last_sent, content_data,
                 attempted, csv_read,
                 args, locals, stages, history>>

\* lines 509-511
NoContent ==
  /\ pc = "acquired"
  /\ content_data = NoItem
  /\ pc' = "done"
  /\ returned' = "False"
  /\ UNCHANGED <<config, temp_audio, webhook, subscribers, last_sent, content_data,
                 attempted, csv_read,
                 args, locals, stages, history>>

\* lines 513-517: process_message(content_data["message"], content_data["source"])
ProcessContent ==
  /\ pc = "acquired"
  /\ content_data # NoItem
  /\ en_text' = content_data.message
  /\ source' = content_data.source
  /\ pc' = "translate"
  \* the record of how the content was fetched ends with the fetch
  /\ attempted' = <<>>
  /\ csv_read' = NoRead
  /\ UNCHANGED <<config, temp_audio, webhook, subscribers, last_sent, content_data, locals,
                 returned, stages, history>>

(***************************************************************************)
(* OrchestratorAgent.process_message, lines 519-583.                       *)
(***************************************************************************)
\* a direct call, as receive_whatsapp makes at line 734
ProcessMessage ==
  /\ pc = "idle"
  /\ \E text \in UserTexts, sender \in Phones :
       /\ en_text' = text
       /\ source' = <<"user:", sender>>
  /\ pc' = "translate"
  /\ UNCHANGED <<config, temp_audio, webhook, subscribers, last_sent, content_data,
                 attempted, csv_read,
                 locals, returned, stages, history>>

\* variant: no except branch, the exception leaves process_message
PipelineError_unhandled ==
  /\ pc' = "done"
  /\ returned' = "raised"
  /\ error' = TRUE

\* lines 581-583
PipelineError ==
  /\ pc' = "done"
  /\ returned' = "False"
  /\ error' = TRUE

\* "abort" is `return False`
Goto(target) ==
  IF target = "abort"
  THEN pc' = "done" /\ returned' = "False"
  ELSE pc' = target /\ UNCHANGED returned

\* variants of the six branch points below
AfterTranslate_unchecked(qa) == "synthesize"
AfterRecheckTranslation_proceeds(ok) == "synthesize"
AfterRecheckTranslation_aborts(ok) == "abort"
AfterRecheckTranslation_loops(ok) ==
  IF ok THEN "synthesize" ELSE "retry_translate"
AfterRecheckAudio_proceeds(ok) == "deliver"
AfterSynthesize_always_checks(qa) == "check_audio"

\* line 540 / 555: `if self.qa_agent:`
AfterTranslate(qa) == IF qa THEN "check_translation" ELSE "synthesize"
AfterSynthesize(qa) == IF qa THEN "check_audio" ELSE "deliver"
\* lines 542-544
AfterCheckTranslation(ok) == IF ok THEN "synthesize" ELSE "retry_translate"
\* lines 545-547
AfterRecheckTranslation(ok) == IF ok THEN "synthesize" ELSE "abort"
\* lines 557-559
AfterCheckAudio(ok) == IF ok THEN "deliver" ELSE "retry_synthesize"
\* lines 560-562
AfterRecheckAudio(ok) == IF ok THEN "deliver" ELSE "abort"

\* the call of translator.translate(en_text) at line 536 or 544
CallTranslate(next) ==
  /\ nTranslate' = nTranslate + 1
  /\ stages' = Append(stages, "TRANSLATE")
  /\ \E out \in TranslateOutcomes(en_text) :
       IF out.raised
       THEN PipelineError /\ UNCHANGED ha_text
       ELSE /\ ha_text' = out.value
            /\ pc' = next
            /\ UNCHANGED <<returned, error>>
  /\ UNCHANGED <<config, temp_audio, webhook, subscribers, last_sent, content_data,
                 attempted, csv_read,
                 args, mp3_filename, full_text, audio_url, all_msgs,
                 recipients, pending, nSynth,
                 synth_input, trChecks, auChecks, broadcasts, sent, create_calls>>

\* the call of validate_translation(en_text, ha_text) at line 542 or 545
CallValidateTranslation(after) ==
  LET ok == validate_translation(en_text, ha_text)
  IN  /\ trChecks' = Append(trChecks, ok)
      /\ stages' = Append(stages, "CHECK_TRANSLATION")
      /\ Goto(after[ok])
      /\ UNCHANGED <<config, temp_audio, webhook, subscribers, last_sent, content_data,
                     attempted, csv_read,
                     args, locals, nTranslate, nSynth, synth_input, auChecks,
                     error, broadcasts, sent, create_calls>>

\* the call of tts_agent.synthesize(ha_text) at line 551 or 559
CallSynthesize(next) ==
  /\ nSynth' = nSynth + 1
  /\ synth_input' = ha_text
  /\ stages' = Append(stages, "SYNTHESIZE")
  /\ \E out \in SynthOutcomes :
       IF out.raised
       THEN PipelineError /\ UNCHANGED mp3_filename
       ELSE /\ mp3_filename' = [id |-> nSynth + 1, file |-> out.value]
            /\ pc' = next
            /\ UNCHANGED <<returned, error>>
  /\ UNCHANGED <<config, temp_audio, webhook, subscribers, last_sent, content_data,
                 attempted, csv_read,
                 args, ha_text, full_text, audio_url, all_msgs,
                 recipients, pending, nTranslate,
                 trChecks, auChecks, broadcasts, sent, create_calls>>

\* the call of validate_audio(mp3_filename) at line 557 or 560
CallValidateAudio(after) ==
  LET ok == validate_audio(mp3_filename.file)
  IN  /\ auChecks' = Append(auChecks, ok)
      /\ stages' = Append(stages, "CHECK_AUDIO")
      /\ Goto(after[ok])
      /\ UNCHANGED <<config, temp_audio, webhook, subscribers, last_sent, content_data,
                     attempted, csv_read,
                     args, locals, nTranslate, nSynth, synth_input, trChecks,
                     error, broadcasts, sent, create_calls>>

\* line 536
Translate ==
  /\ pc = "translate"
  /\ CallTranslate(AfterTranslate(qa_agent))

\* line 542
CheckTranslation ==
  /\ pc = "check_translation"
  /\ CallValidateTranslation([ok \in BOOLEAN |-> AfterCheckTranslation(ok)])

\* line 544
RetryTranslate ==
  /\ pc = "retry_translate"
  /\ CallTranslate("recheck_translation")

\* line 545
RecheckTranslation ==
  /\ pc = "recheck_translation"
  /\ CallValidateTranslation([ok \in BOOLEAN |-> AfterRecheckTranslation(ok)])

\* line 551
Synthesize ==
  /\ pc = "synthesize"
  /\ CallSynthesize(AfterSynthesize(qa_agent))

\* line 557
CheckAudio ==
  /\ pc = "check_audio"
  /\ CallValidateAudio([ok \in BOOLEAN |-> AfterCheckAudio(ok)])

\* line 559
RetrySynthesize ==
  /\ pc = "retry_synthesize"
  /\ CallSynthesize("recheck_audio")

\* line 560
RecheckAudio ==
  /\ pc = "recheck_audio"
  /\ CallValidateAudio([ok \in BOOLEAN |-> AfterRecheckAudio(ok)])

(***************************************************************************)
(* The delivery stage, lines 564-579, and DeliveryAgent.broadcast,         *)
(* lines 112-122.                                                          *)
(***************************************************************************)
\* line 571: the banner, [EN] en_text, the source, the rule, [HA] ha_text
FormatMessage(en, src, ha) == [en |-> en, source |-> src, ha |-> ha]

\* variant: the URL names the first artifact of the run
AudioUrl_first_artifact(mp3) ==
  [base |-> "PUBLIC_URL", path |-> "/temp_audio/", name |-> 1]

\* line 574
AudioUrl(mp3) ==
  [base |-> "PUBLIC_URL", path |-> "/temp_audio/", name |-> mp3.id]

\* lines 568-577 and 113-115: format, then broadcast() lists the recipients
Deliver ==
  /\ pc = "deliver"
  /\ full_text' = FormatMessage(en_text, source, ha_text)
  /\ audio_url' = AudioUrl(mp3_filename)
  /\ broadcasts' = broadcasts + 1
  /\ stages' = Append(stages, "DELIVER")
  /\ \E listing \in Listings :
       /\ recipients' = get_subscribers(listing, subscribers)
       /\ pending' = recipients'
  /\ pc' = "sending"
  /\ UNCHANGED <<all_msgs, config, temp_audio, webhook, subscribers, last_sent, content_data,
                 attempted, csv_read,
                 args, ha_text, mp3_filename, returned, nTranslate, nSynth,
                 synth_input, trChecks, auChecks, error, sent, create_calls>>

\* lines 117-122: the two messages.create calls share one try block
SendOutcomes == {"text_raises", "media_raises", "ok"}
Created(to, outcome) ==
  CASE outcome = "text_raises" -> {}
    [] outcome = "media_raises" -> {<<to, "text">>}
    [] OTHER -> {<<to, "text">>, <<to, "media">>}

\* the messages.create calls that were made: the first one raising leaves
\* the try block (line 118 to line 121) before the second one is reached
Called(to, outcome) ==
  IF outcome = "text_raises"
  THEN {<<to, "text">>}
  ELSE {<<to, "text">>, <<to, "media">>}

\* variant: no try block around the two messages.create calls, so a
\* failed send reaches process_message's except branch
SendTo_unguarded ==
  /\ pc = "sending"
  /\ \E to \in pending, outcome \in SendOutcomes :
       /\ sent' = sent \cup Created(to, outcome)
       /\ create_calls' = create_calls \cup Called(to, outcome)
       /\ pending' = pending \ {to}
       /\ UNCHANGED <<all_msgs, recipients>>
       /\ IF outcome = "ok"
          THEN UNCHANGED <<pc, returned, error>>
          ELSE PipelineError
  /\ UNCHANGED <<config, temp_audio, webhook, subscribers, last_sent, content_data,
                 attempted, csv_read,
                 args, ha_text, mp3_filename, full_text, audio_url,
                 nTranslate, nSynth, synth_input, trChecks, auChecks, stages,
                 broadcasts>>

\* lines 116-122: one iteration of `for to in recipients`
SendTo ==
  /\ pc = "sending"
  /\ \E to \in pending, outcome \in SendOutcomes :
       /\ sent' = sent \cup Created(to, outcome)
       /\ create_calls' = create_calls \cup Called(to, outcome)
       /\ pending' = pending \ {to}
  /\ UNCHANGED <<pc, all_msgs, recipients, config, temp_audio, webhook, subscribers, last_sent, content_data,
                 attempted, csv_read,
                 args, ha_text, mp3_filename, full_text, audio_url, returned,
                 nTranslate, nSynth, synth_input, trChecks, auChecks, stages,
                 error, broadcasts>>

\* variant: the run reports failure when no message was created
Delivered_needs_a_send ==
  /\ pc = "sending"
  /\ pending = {}
  /\ pc' = "done"
  /\ returned' = IF sent = {} THEN "False" ELSE "True"
  /\ stages' = Append(stages, "DONE")
  /\ UNCHANGED <<config, temp_audio, webhook, subscribers, last_sent,
                 content_data, attempted, csv_read, args, locals, history>>

\* lines 578-579: broadcast() returned, process_message returns True
Delivered ==
  /\ pc = "sending"
  /\ pending = {}
  /\ pc' = "done"
  /\ returned' = "True"
  /\ stages' = Append(stages, "DONE")
  /\ UNCHANGED <<config, temp_audio, webhook, subscribers, last_sent, content_data,
                 attempted, csv_read,
                 args, locals, history>>

\* lines 685-690 and 703-704: the scheduler fires again, or the next
\* request arrives; the finished run's locals are gone
NextRun ==
  /\ pc = "done"
  /\ pc' = "idle"
  /\ content_data' = NoItem
  /\ attempted' = <<>>
  /\ csv_read' = NoRead
  /\ en_text' = PyNone
  /\ source' = <<>>
  /\ ha_text' = PyNone
  /\ mp3_filename' = NoAudio
  /\ full_text' = NoFullText
  /\ audio_url' = NoUrl
  /\ all_msgs' = <<>>
  /\ recipients' = {}
  /\ pending' = {}
  /\ returned' = "none"
  /\ nTranslate' = 0
  /\ nSynth' = 0
  /\ synth_input' = PyNone
  /\ trChecks' = <<>>
  /\ auChecks' = <<>>
  /\ stages' = <<>>
  /\ error' = FALSE
  /\ broadcasts' = 0
  /\ sent' = {}
  /\ create_calls' = {}
  /\ UNCHANGED <<config, temp_audio, webhook, subscribers, last_sent, create_calls>>

Next ==
  \/ AutoBroadcast
  \/ NoContent
  \/ ProcessContent
  \/ ProcessMessage
  \/ Translate
  \/ CheckTranslation
  \/ RetryTranslate
  \/ RecheckTranslation
  \/ Synthesize
  \/ CheckAudio
  \/ RetrySynthesize
  \/ RecheckAudio
  \/ Deliver
  \/ SendTo
  \/ Delivered
  \/ NextRun

Spec == Init /\ [][Next]_vars

(***************************************************************************)
(* Properties.                                                             *)
(***************************************************************************)
Last(s) == s[Len(s)]
Passed(checks) == checks # <<>> /\ Last(checks)
NonEmptyStr(x) == IsStr(x) /\ Len(x) > 0

\* C1: with a quality gate, when validate_translation fails on the first
\* translation and again on the retried one, the run returns failure, the
\* synthesizer is never invoked and delivery_agent.broadcast is never invoked.
C1_TwoTranslationFailuresAbort ==
  (qa_agent /\ Len(trChecks) = 2 /\ ~trChecks[1] /\ ~trChecks[2])
    => /\ pc = "done"
       /\ returned = "False"
       /\ nSynth = 0
       /\ broadcasts = 0
       /\ sent = {}

C1_Witness ==
  /\ qa_agent
  /\ trChecks = <<FALSE, FALSE>>
  /\ nTranslate = 2
  /\ returned = "False"

\* C2: with a quality gate, when validate_translation fails on the first
\* translation and passes on the second, the translator has been invoked
\* exactly twice, the run has moved on to synthesis, and once the audio gate
\* has passed the run goes to delivery and ends in success.
C2_RetryPassContinues ==
  (qa_agent /\ trChecks = <<FALSE, TRUE>>)
    => /\ nTranslate = 2
       /\ pc \in {"synthesize", "check_audio", "retry_synthesize",
                  "recheck_audio", "deliver", "sending", "done"}
       /\ (pc # "synthesize" => nSynth >= 1 /\ synth_input = ha_text)
       /\ (Passed(auChecks) => (pc = "deliver" \/ broadcasts = 1))
       /\ (Passed(auChecks) /\ pc = "done" => returned = "True")

C2_Witness ==
  /\ qa_agent
  /\ trChecks = <<FALSE, TRUE>>
  /\ nTranslate = 2
  /\ broadcasts = 1
  /\ returned = "True"

\* C3: with a quality gate, when validate_audio fails on the first artifact
\* the synthesizer is invoked exactly once more and the new artifact is
\* checked again; when that check fails too the run returns failure and
\* delivery_agent.broadcast is never invoked.
C3_AudioRetryOnceThenAbort ==
  (qa_agent /\ Len(auChecks) >= 1 /\ ~auChecks[1])
    => /\ \/ pc = "retry_synthesize" /\ nSynth = 1 /\ Len(auChecks) = 1
          \/ /\ pc = "recheck_audio"
             /\ nSynth = 2 /\ Len(auChecks) = 1 /\ mp3_filename.id = 2
          \/ /\ pc = "done" /\ error
             /\ nSynth = 2 /\ Len(auChecks) = 1 /\ Last(stages) = "SYNTHESIZE"
          \/ nSynth = 2 /\ Len(auChecks) = 2 /\ mp3_filename.id = 2
       /\ (Len(auChecks) = 2 /\ ~auChecks[2]
             => /\ pc = "done"
                /\ returned = "False"
                /\ broadcasts = 0
                /\ sent = {})

C3_Witness ==
  /\ qa_agent
  /\ auChecks = <<FALSE, FALSE>>
  /\ nSynth = 2
  /\ returned = "False"

\* C4: in every run, whatever the gates answer and however many recipients
\* there are, the translator is invoked at most twice and the synthesizer at
\* most twice.
C4_RetryBudget == nTranslate <= 2 /\ nSynth <= 2

C4_Witness ==
  /\ nTranslate = 2
  /\ nSynth = 2
  /\ Cardinality({m[1] : m \in sent}) = 2
  /\ returned = "True"

\* C5: whenever a run (process_message or auto_broadcast) reports failure,
\* no text or media message has been sent to any recipient during that run.
C5_FailureSendsNothing ==
  returned = "False" => sent = {} /\ broadcasts = 0 /\ pending = {}

C5_Witness ==
  /\ returned = "False"
  /\ auChecks = <<FALSE, FALSE>>
  /\ content_data # NoItem

StageSteps ==
  { <<"ACQUIRE_CONTENT", "TRANSLATE">>,
    <<"TRANSLATE", "CHECK_TRANSLATION">>,
    <<"CHECK_TRANSLATION", "TRANSLATE">>,
    <<"CHECK_TRANSLATION", "SYNTHESIZE">>,
    <<"SYNTHESIZE", "CHECK_AUDIO">>,
    <<"CHECK_AUDIO", "SYNTHESIZE">>,
    <<"CHECK_AUDIO", "DELIVER">>,
    <<"DELIVER", "DONE">> }

StagesInOrder ==
  /\ stages # <<>> => stages[1] \in {"ACQUIRE_CONTENT", "TRANSLATE"}
  /\ \A i \in 1..(Len(stages) - 1) : <<stages[i], stages[i + 1]>> \in StageSteps

DeliveryAfterBothChecks ==
  "DELIVER" \in {stages[i] : i \in 1..Len(stages)}
    => /\ Passed(trChecks)
       /\ Passed(auChecks)
       /\ \E i, j, k \in 1..Len(stages) :
            /\ i < j /\ j < k
            /\ stages[i] = "CHECK_TRANSLATION"
            /\ stages[j] = "CHECK_AUDIO"
            /\ stages[k] = "DELIVER"
            /\ \A m \in 1..Len(stages) :
                 /\ stages[m] = "CHECK_TRANSLATION" => m <= i
                 /\ stages[m] = "CHECK_AUDIO" => m <= j

InPipeline == "TRANSLATE" \in {stages[i] : i \in 1..Len(stages)}

\* C6 as stated: with a quality gate the stages occur only in the order
\* TRANSLATE, CHECK_TRANSLATION, SYNTHESIZE, CHECK_AUDIO, DELIVER, DONE,
\* every delivery follows a passed translation check and then a passed audio
\* check, and failure is entered only from one of the two check states.
C6_AsStated ==
  qa_agent
    => /\ StagesInOrder
       /\ DeliveryAfterBothChecks
       /\ (returned = "False" /\ InPipeline
             => Last(stages) \in {"CHECK_TRANSLATION", "CHECK_AUDIO"})

\* C6, amended: the same order and the same two passed checks before every
\* delivery; failure is entered from one of the two check states or, when the
\* translator or the synthesizer raises, from TRANSLATE or SYNTHESIZE through
\* the except branch of process_message (and, in auto_broadcast, from
\* ACQUIRE_CONTENT when there is no content).
C6_StageOrder ==
  qa_agent
    => /\ StagesInOrder
       /\ DeliveryAfterBothChecks
       /\ (returned = "False"
             => \/ ~error /\ Last(stages) = "CHECK_TRANSLATION"
                          /\ trChecks = <<FALSE, FALSE>>
                \/ ~error /\ Last(stages) = "CHECK_AUDIO"
                          /\ auChecks = <<FALSE, FALSE>>
                \/ error /\ Last(stages) \in {"TRANSLATE", "SYNTHESIZE"}
                \/ ~error /\ stages = <<"ACQUIRE_CONTENT">>
                          /\ content_data = NoItem)

C6_Witness ==
  /\ qa_agent
  /\ returned = "True"
  /\ stages = <<"ACQUIRE_CONTENT", "TRANSLATE", "CHECK_TRANSLATION",
                "TRANSLATE", "CHECK_TRANSLATION", "SYNTHESIZE", "CHECK_AUDIO",
                "SYNTHESIZE", "CHECK_AUDIO", "DELIVER", "DONE">>

Tiers(calls) == [i \in 1..Len(calls) |-> calls[i].tier]
AllFailed(calls) == \A i \in 1..Len(calls) : ~calls[i].ok
IsPrefix(s, u) == Len(s) <= Len(u) /\ s = SubSeq(u, 1, Len(s))

\* what fetch_malaria_content handed over, when auto_broadcast used it
FetchedByChain == pc = "acquired" /\ mkr_agent

\* C7: when both primary web sources, both RSS feeds and the tabular file
\* all fail, fetch_malaria_content returns an item with a nonempty message
\* and the source label 'SafeDefault'.
C7_SafeDefaultWhenAllFail ==
  (FetchedByChain /\ Len(attempted) = 5 /\ AllFailed(attempted))
    => /\ content_data # NoItem
       /\ content_data.source = <<"SafeDefault">>
       /\ NonEmptyStr(content_data.message)

C7_Witness ==
  /\ FetchedByChain
  /\ Tiers(attempted) = <<"FEDGEN-PHIS", "WHO", "WHO-RSS", "FEDGEN-RSS", "CSV">>
  /\ AllFailed(attempted)
  /\ content_data.source = <<"SafeDefault">>

\* C8: for every combination of tier outcomes, the item handed to the
\* orchestrator by fetch_malaria_content has a nonempty message and is never
\* a null-like value, also when it comes from a row of the tabular file.
C8_MessageNeverEmpty ==
  FetchedByChain
    => /\ content_data # NoItem
       /\ NonEmptyStr(content_data.message)

OtherPrimary(name) == IF name = "WHO" THEN "FEDGEN-PHIS" ELSE "WHO"
ChainOrder(selected) ==
  <<selected, OtherPrimary(selected), "WHO-RSS", "FEDGEN-RSS", "CSV">>

\* C9: fetch_malaria_content is a strict fail-over chain in the order chosen
\* primary, other primary, WHO-RSS, FEDGEN-RSS, tabular file, SafeDefault: a
\* tier is attempted only if every earlier tier failed, none is attempted
\* after one succeeded, and the returned label names the first tier that
\* succeeded.
C9_StrictFailOver ==
  FetchedByChain
    => /\ attempted # <<>>
       /\ attempted[1].tier \in {"WHO", "FEDGEN-PHIS"}
       /\ IsPrefix(Tiers(attempted), ChainOrder(attempted[1].tier))
       /\ AllFailed(SubSeq(attempted, 1, Len(attempted) - 1))
       /\ IF Last(attempted).ok
          THEN IF Last(attempted).tier = "CSV"
               THEN content_data.source[1] = "CSV-"
               ELSE content_data.source = <<Last(attempted).tier>>
          ELSE /\ Len(attempted) = 5
               /\ content_data.source = <<"SafeDefault">>

C9_Witness ==
  /\ FetchedByChain
  /\ Tiers(attempted) = <<"WHO", "FEDGEN-PHIS", "WHO-RSS", "FEDGEN-RSS">>
  /\ Last(attempted).ok
  /\ content_data.source = <<"FEDGEN-RSS">>

\* C10: when the randomly chosen primary source fails, the second attempt is
\* the primary source that was not chosen (WHO after FEDGEN-PHIS and the
\* reverse); no primary source is attempted twice in one fetch.
C10_OtherPrimaryNext ==
  (FetchedByChain /\ attempted # <<>> /\ ~attempted[1].ok)
    => /\ Len(attempted) >= 2
       /\ attempted[1].tier = "WHO" => attempted[2].tier = "FEDGEN-PHIS"
       /\ attempted[1].tier = "FEDGEN-PHIS" => attempted[2].tier = "WHO"
       /\ \A name \in {"WHO", "FEDGEN-PHIS"} :
            Cardinality({i \in 1..Len(attempted) : attempted[i].tier = name}) = 1

C10_Witness ==
  /\ FetchedByChain
  /\ Tiers(attempted) = <<"WHO", "FEDGEN-PHIS">>
  /\ ~attempted[1].ok
  /\ attempted[2].ok
  /\ content_data.source = <<"FEDGEN-PHIS">>

(***************************************************************************)
(* The tabular fallback and its cursor.                                    *)
(***************************************************************************)
\* the index one past the cursor a read found, wrapped to the row count
Advanced(found, rows) ==
  IF found.exists THEN (found.value + 1) % rows ELSE 0

ChainReadTabular == pc = "acquired" /\ csv_read.by = "chain"
OrchestratorReadTabular == pc = "acquired" /\ csv_read.by = "orchestrator"

\* C11: when the content chain falls back to the tabular file, it advances
\* the persisted cursor by one modulo the row count, returns the row at the
\* new cursor index and labels the item "CSV-" plus the row's source field
C11_ChainAdvancesCursor ==
  ChainReadTabular =>
    /\ last_sent.exists
    /\ last_sent.value = Advanced(csv_read.found, Len(csv_read.df))
    /\ csv_read.idx = last_sent.value
    /\ content_data.source[1] = "CSV-"


\* C12: whatever the sequence of tabular fallback consumptions and however
\* the row count N >= 1 changes between them, the cursor a consumption
\* writes and the row index it returns lie in 0..N-1 for the N it read
C12_CursorInRange ==
  /\ OrchestratorReadTabular =>
       /\ Len(csv_read.df) >= 1
       /\ last_sent.exists
       /\ last_sent.value \in 0..(Len(csv_read.df) - 1)
       /\ csv_read.idx \in 0..(Len(csv_read.df) - 1)
       /\ content_data # NoItem
  /\ ChainReadTabular => csv_read.idx \in 0..(Len(csv_read.df) - 1)

\* the file shrank: the cursor found lies beyond the rows now read
C12_Witness ==
  /\ OrchestratorReadTabular
  /\ csv_read.found.exists
  /\ csv_read.found.value >= Len(csv_read.df)
  /\ last_sent.value < Len(csv_read.df)

\* C13: a tabular fallback consumption that finds cursor c returns row
\* (c+1) mod N and persists (c+1) mod N: from c = N-1 it returns row 0, and
\* with no cursor file it returns row 0 and persists 0, so that the next
\* consumption returns row 1 mod N
C13_NextRow ==
  OrchestratorReadTabular =>
    LET c == csv_read.found
        N == Len(csv_read.df)
        row == IF c.exists THEN (c.value + 1) % N ELSE 0
    IN  /\ csv_read.idx = row
        /\ last_sent = [exists |-> TRUE, value |-> row]
        /\ content_data.message = csv_read.df[row + 1].message
        /\ c.exists /\ c.value = N - 1 => row = 0
        /\ c = [exists |-> TRUE, value |-> 0] => row = 1 % N
        /\ appTwilio_idx(c, N) = row

\* the wrap: the cursor found is on the last of several rows
C13_Witness ==
  /\ OrchestratorReadTabular
  /\ Len(csv_read.df) > 1
  /\ csv_read.found = [exists |-> TRUE, value |-> Len(csv_read.df) - 1]
  /\ last_sent.value = 0
  /\ content_data.message = csv_read.df[1].message

\* C14: fetch_malaria_content never raises to its caller: an exception
\* inside any tier helper is caught and the chain goes on to the next tier
\* (past the last one, to the safe default) instead of ending the fetch
C14_HelperFailureCaught ==
  FetchedByChain =>
    /\ content_data # NoItem
    /\ csv_read.by # "orchestrator"
    /\ \A i \in 1..Len(attempted) :
         attempted[i].raised =>
           /\ ~attempted[i].ok
           /\ IF i < Len(attempted)
              THEN attempted[i + 1].tier = ChainOrder(attempted[1].tier)[i + 1]
              ELSE /\ attempted[i].tier = "CSV"
                   /\ content_data.source = <<"SafeDefault">>

\* every helper raised, the tabular one included
C14_Witness ==
  /\ FetchedByChain
  /\ Len(attempted) = 5
  /\ \A i \in 1..5 : attempted[i].raised
  /\ content_data.message = SafeDefaultMessage

(***************************************************************************)
(* QualityAssuranceAgent called on its own: validate_translation and       *)
(* validate_audio on arguments drawn from bounded sets.                    *)
(***************************************************************************)
MaxTextLen == 4

\* every text of "a" and " " up to MaxTextLen characters
RECURSIVE TextsOfLen(_)
TextsOfLen(n) ==
  IF n = 0 THEN {<<>>}
  ELSE {Append(t, c) : t \in TextsOfLen(n - 1), c \in {"a", " "}}
QATexts == UNION {TextsOfLen(n) : n \in 0..MaxTextLen}

\* what os.path.exists, os.path.getsize and AudioSegment.from_mp3 can find
QAAudioSizes ==
  {0, 1, MinAudioBytes - 1, MinAudioBytes, MinAudioBytes + 1, 5000}
QAAudioFiles ==
  {AudioFile(FALSE, 0, FALSE, 0)}
    \cup {AudioFile(TRUE, size, FALSE, 0) : size \in QAAudioSizes}
    \cup {AudioFile(TRUE, size, TRUE, ms) :
            size \in QAAudioSizes,
            ms \in {0, MinAudioMs - 1, MinAudioMs, MinAudioMs + 1}}

QAInit ==
  /\ pc \in {"qa_translation", "qa_audio"}
  /\ IF pc = "qa_translation"
     THEN /\ en_text \in QATexts \cup {PyNone, NaN}
          /\ ha_text \in QATexts \cup {PyNone, NaN}
          /\ mp3_filename = NoAudio
     ELSE /\ en_text = PyNone
          /\ ha_text = PyNone
          /\ mp3_filename \in {[id |-> 1, file |-> f] : f \in QAAudioFiles}
  /\ qa_agent = TRUE
  /\ mkr_agent = FALSE
  /\ subscribers = InitialStore
  /\ Quiet
  /\ last_sent = NoCursor
  /\ content_data = NoItem
  /\ attempted = <<>>
  /\ csv_read = NoRead
  /\ source = <<>>
  /\ full_text = NoFullText
  /\ audio_url = NoUrl
  /\ all_msgs = <<>>
  /\ recipients = {}
  /\ pending = {}
  /\ returned = "none"
  /\ nTranslate = 0
  /\ nSynth = 0
  /\ synth_input = PyNone
  /\ trChecks = <<>>
  /\ auChecks = <<>>
  /\ stages = <<>>
  /\ error = FALSE
  /\ broadcasts = 0
  /\ sent = {}
  /\ create_calls = {}
  /\ temp_audio = {}

\* qa_agent.validate_translation(en_text, ha_text)
QAValidateTranslation ==
  /\ pc = "qa_translation"
  /\ trChecks' = <<validate_translation(en_text, ha_text)>>
  /\ pc' = "qa_done"
  /\ UNCHANGED <<config, temp_audio, webhook, subscribers, last_sent, content_data, attempted,
                 csv_read, args, locals, returned, stages, nTranslate, nSynth,
                 synth_input, auChecks, error, broadcasts, sent, create_calls>>

\* qa_agent.validate_audio(mp3_filename)
QAValidateAudio ==
  /\ pc = "qa_audio"
  /\ auChecks' = <<validate_audio(mp3_filename.file)>>
  /\ pc' = "qa_done"
  /\ UNCHANGED <<config, temp_audio, webhook, subscribers, last_sent, content_data, attempted,
                 csv_read, args, locals, returned, stages, nTranslate, nSynth,
                 synth_input, trChecks, error, broadcasts, sent, create_calls>>

QANext ==
  \/ QAValidateTranslation
  \/ QAValidateAudio

QASpec == QAInit /\ [][QANext]_vars

TranslationChecked == pc = "qa_done" /\ trChecks # <<>>
AudioChecked == pc = "qa_done" /\ auChecks # <<>>
Blank(x) == x = PyNone \/ (IsStr(x) /\ Strip(x) = <<>>)

\* C15: validate_translation(source, translated) is false whenever
\* translated is empty or whitespace-only, whatever the source, and false
\* whenever translated equals a nonempty source
C15_EmptyOrIdenticalRejected ==
  TranslationChecked =>
    /\ Blank(ha_text) => trChecks = <<FALSE>>
    /\ (NonEmptyStr(en_text) /\ ha_text = en_text) => trChecks = <<FALSE>>

\* a translation with visible text that is the source, letter for letter
C15_Witness ==
  /\ TranslationChecked
  /\ IsStr(en_text)
  /\ ~Blank(en_text)
  /\ ha_text = en_text
  /\ trChecks = <<FALSE>>

\* C16 as stated: validate_translation is true for every translated text
\* that is not empty or whitespace-only and is not character-for-character
\* identical to the source text
C16_AsStated ==
  (TranslationChecked /\ IsStr(en_text) /\ IsStr(ha_text)
     /\ ~Blank(ha_text) /\ ha_text # en_text)
    => trChecks = <<TRUE>>

\* C16: validate_translation is true for every translated text that is not
\* empty or whitespace-only and that, once both are stripped of surrounding
\* whitespace, differs from the source text, also when it is shorter than
\* 30% of the source (which only warns)
C16_DifferentAfterStripAccepted ==
  (TranslationChecked /\ IsStr(en_text) /\ IsStr(ha_text)
     /\ ~Blank(ha_text) /\ Strip(ha_text) # Strip(en_text))
    => trChecks = <<TRUE>>

\* a one-letter translation of a four-character source
C16_Witness ==
  /\ TranslationChecked
  /\ IsStr(en_text)
  /\ IsStr(ha_text)
  /\ ~Blank(ha_text)
  /\ Len(ha_text) * 10 < Len(en_text) * 3
  /\ trChecks = <<TRUE>>

\* C17: validate_audio is false when the artifact does not exist, false
\* when its size is below 100 bytes (a zero-byte file included) and false
\* when its duration can be measured and is below 1 second
C17_BadAudioRejected ==
  AudioChecked =>
    LET file == mp3_filename.file
    IN  /\ ~file.exists => auChecks = <<FALSE>>
        /\ file.size < 100 => auChecks = <<FALSE>>
        /\ (file.decodable /\ file.ms < 1000) => auChecks = <<FALSE>>

\* a file of sufficient size that decodes to 999 ms
C17_Witness ==
  /\ AudioChecked
  /\ mp3_filename.file.exists
  /\ mp3_filename.file.size >= 100
  /\ mp3_filename.file.decodable
  /\ mp3_filename.file.ms = 999
  /\ auChecks = <<FALSE>>

\* C18: validate_audio is true for an artifact that exists and has the
\* minimum size but whose duration cannot be measured: a failed measurement
\* alone never rejects
C18_UnmeasurableAccepted ==
  (AudioChecked /\ mp3_filename.file.exists /\ mp3_filename.file.size >= 100
     /\ ~mp3_filename.file.decodable)
    => auChecks = <<TRUE>>

\* a file of exactly 100 bytes that does not decode
C18_Witness ==
  /\ AudioChecked
  /\ mp3_filename.file = AudioFile(TRUE, 100, FALSE, 0)
  /\ auChecks = <<TRUE>>

(***************************************************************************)
(* DeliveryAgent.get_subscribers called on its own, on any subscribers.json *)
(* the webhook can have left behind.                                       *)
(***************************************************************************)
Stores ==
  [Phones -> {[present |-> FALSE, unsubscribed |-> FALSE],
              [present |-> TRUE, unsubscribed |-> FALSE],
              [present |-> TRUE, unsubscribed |-> TRUE]}]

RecipientsInit ==
  /\ pc = "get_subscribers"
  /\ subscribers \in Stores
  /\ qa_agent = TRUE
  /\ mkr_agent = TRUE
  /\ Quiet
  /\ last_sent = NoCursor
  /\ Fresh
  /\ temp_audio = {}

\* line 104: all_msgs = self.client.messages.list(to=self.from_number, ...)
ListMessages ==
  /\ pc = "get_subscribers"
  /\ \E listing \in Listings : all_msgs' = <<listing>>
  /\ pc' = "listed"
  /\ UNCHANGED <<config, temp_audio, webhook, subscribers, last_sent, content_data, attempted,
                 csv_read, args, ha_text, mp3_filename, full_text, audio_url,
                 recipients, pending, returned, stages, history>>

\* lines 105-110: the value get_subscribers returns
ReturnSubscribers ==
  /\ pc = "listed"
  /\ recipients' = get_subscribers(all_msgs[1], subscribers)
  /\ pc' = "got_subscribers"
  /\ UNCHANGED <<config, temp_audio, webhook, subscribers, last_sent, content_data, attempted,
                 csv_read, args, ha_text, mp3_filename, full_text, audio_url,
                 all_msgs, pending, returned, stages, history>>

RecipientsNext ==
  \/ ListMessages
  \/ ReturnSubscribers

RecipientsSpec == RecipientsInit /\ [][RecipientsNext]_vars

\* the store's recipients with unsubscribed = false
NotUnsubscribed ==
  {p \in Phones : subscribers[p].present /\ ~subscribers[p].unsubscribed}
\* the senders of the inbound messages the transport listed
Listed == pc = "got_subscribers" /\ all_msgs[1].ok

\* C19 as stated: the recipient set get_subscribers computes is exactly the
\* intersection of the transport's observed contacts and the store's
\* recipients with unsubscribed = false
C19_AsStated ==
  Listed => recipients = all_msgs[1].from \cap NotUnsubscribed

\* C19: the recipient set is exactly the intersection of the observed
\* contacts whose address starts with "whatsapp:" and the store's recipients
\* with unsubscribed = false, and empty when the history cannot be listed;
\* none in it is flagged unsubscribed or absent from the contact history
C19_WhatsAppContactsNotUnsubscribed ==
  pc = "got_subscribers" =>
    /\ all_msgs[1].ok =>
         recipients =
           {p \in all_msgs[1].from : p[1] = "whatsapp:"} \cap NotUnsubscribed
    /\ ~all_msgs[1].ok => recipients = {}
    /\ \A p \in recipients :
         /\ subscribers[p].present
         /\ ~subscribers[p].unsubscribed
         /\ p \in all_msgs[1].from

\* every address has written in; one is unsubscribed, one was never stored,
\* one is not a WhatsApp address
C19_Witness ==
  /\ Listed
  /\ all_msgs[1].from = Phones
  /\ subscribers = InitialStore
  /\ recipients = {<<"whatsapp:", "+1">>, <<"whatsapp:", "+2">>}

(***************************************************************************)
(* appMultilingual.py, broadcast(), lines 132-156: the per-language        *)
(* variant of the scheduled job.  It reads messages2.csv with the same     *)
(* cyclic cursor, then translates, synthesizes and sends inside the loop   *)
(* over the recipients, all within one try block.                          *)
(***************************************************************************)
MlInit ==
  /\ pc = "ml_idle"
  /\ Quiet
  /\ last_sent \in
       {NoCursor} \cup {[exists |-> TRUE, value |-> v] : v \in 0..(MaxRows - 1)}
  /\ qa_agent = FALSE
  /\ mkr_agent = FALSE
  /\ subscribers = InitialStore
  /\ Fresh
  /\ temp_audio = {}

\* lines 133-143: the csv row, then subs = delivery_agent.get_subscribers()
MlBroadcast ==
  /\ pc = "ml_idle"
  /\ \E csv \in CsvFiles, listing \in Listings :
       LET cyc == CyclicCsv(csv, last_sent)
       IN  /\ last_sent' = cyc.cursor
           /\ csv_read' = cyc.read
           /\ IF cyc.item = NoItem
              THEN /\ pc' = "done"
                   /\ error' = TRUE
                   /\ UNCHANGED <<args, recipients, pending>>
              ELSE /\ en_text' = cyc.item.message
                   /\ source' = cyc.item.source
                   /\ recipients' = get_subscribers(listing, subscribers)
                   /\ pending' = recipients'
                   /\ pc' = "ml_sending"
                   /\ UNCHANGED error
  /\ UNCHANGED <<config, temp_audio, webhook, subscribers, content_data, attempted, ha_text,
                 mp3_filename, full_text, audio_url, all_msgs, returned,
                 nTranslate, nSynth, synth_input, trChecks, auChecks, stages,
                 broadcasts, sent, create_calls>>

\* lines 145-156: one iteration of `for user in subs`; whatever raises in
\* it reaches the except of broadcast(), which ends the loop
MlOutcomes ==
  {"translate_raises", "synthesize_raises", "text_raises", "media_raises",
   "ok"}

MlSendTo ==
  /\ pc = "ml_sending"
  /\ \E user \in pending, outcome \in MlOutcomes :
       /\ pending' = pending \ {user}
       /\ nTranslate' = nTranslate + 1
       /\ nSynth' = IF outcome = "translate_raises" THEN nSynth ELSE nSynth + 1
       /\ sent' =
            IF outcome \in {"translate_raises", "synthesize_raises"}
            THEN sent
            ELSE sent \cup Created(user, outcome)
       /\ create_calls' =
            IF outcome \in {"translate_raises", "synthesize_raises"}
            THEN create_calls
            ELSE create_calls \cup Called(user, outcome)
       /\ IF outcome = "ok"
          THEN UNCHANGED <<pc, error>>
          ELSE pc' = "done" /\ error' = TRUE
  /\ UNCHANGED <<config, temp_audio, webhook, subscribers, last_sent, content_data, attempted,
                 csv_read, args, ha_text, mp3_filename, full_text, audio_url,
                 all_msgs, recipients, returned, synth_input, trChecks,
                 auChecks, stages, broadcasts>>

\* the loop is exhausted and broadcast() returns
MlFinished ==
  /\ pc = "ml_sending"
  /\ pending = {}
  /\ pc' = "done"
  /\ UNCHANGED <<config, temp_audio, webhook, subscribers, last_sent, content_data, attempted,
                 csv_read, args, locals, returned, stages, history>>

MlNext ==
  \/ MlBroadcast
  \/ MlSendTo
  \/ MlFinished

MultilingualSpec == MlInit /\ [][MlNext]_vars

\* the fan-out has visited this recipient, created the text message and
\* not the media message: the second messages.create raised
MediaSendFailed(to) ==
  /\ to \in recipients \ pending
  /\ <<to, "text">> \in sent
  /\ <<to, "media">> \notin sent

\* C20: a send failure for one recipient does not stop the fan-out: every
\* other recipient of the run's list still has delivery attempted and the
\* run does not abort because of the failure
C20_FailedSendDoesNotStopFanOut ==
  (pc = "done" /\ \E to \in recipients : MediaSendFailed(to)) =>
    /\ pending = {}
    /\ ~error
    /\ returned # "False"

\* in finalAppTwilio.py the fan-out went on after a failed media message
C20_FinalAppWitness ==
  /\ pc = "done"
  /\ returned = "True"
  /\ \E to \in recipients : MediaSendFailed(to)
  /\ \E to \in recipients :
       <<to, "text">> \in sent /\ <<to, "media">> \in sent

(***************************************************************************)
(* The subscriber store, lines 35-63 (finalAppTwilio.py) and 33-63         *)
(* (appMultilingual.py).  subscribers.json maps an address to a dict; here *)
(* an entry is [present, unsubscribed, lang], lang = PyNone when the dict  *)
(* has no "lang" key.  last_seen is written and never read, and is left    *)
(* out.  load_subscribers and save_subscribers are the read and the write  *)
(* of the whole file.                                                      *)
(***************************************************************************)
NoEntry == [present |-> FALSE, unsubscribed |-> FALSE, lang |-> PyNone]
Subscriber(unsubscribed, lang) ==
  [present |-> TRUE, unsubscribed |-> unsubscribed, lang |-> lang]

\* variant: the entry is updated in place
mark_unsubscribed_keeps_entry(data, phone) ==
  [data EXCEPT ![phone] = Subscriber(TRUE, @.lang)]

\* variant: the opt-out deletes the entry
mark_unsubscribed_deletes_entry(data, phone) ==
  [data EXCEPT ![phone] = NoEntry]

\* finalAppTwilio.py lines 45-51: data[phone] = a new dict
mark_unsubscribed(data, phone) ==
  [data EXCEPT ![phone] = Subscriber(TRUE, PyNone)]

\* finalAppTwilio.py lines 53-59: entry = data.get(phone, {})
record_activity(data, phone) ==
  [data EXCEPT ![phone] = Subscriber(FALSE, @.lang)]

\* variant: a new dict, as in finalAppTwilio.py
appMultilingual_mark_unsubscribed_new_entry(data, phone) ==
  [data EXCEPT ![phone] = Subscriber(TRUE, PyNone)]

\* appMultilingual.py lines 43-49: entry = data.get(phone, {})
appMultilingual_mark_unsubscribed(data, phone) ==
  [data EXCEPT ![phone] = Subscriber(TRUE, @.lang)]

\* variant: the language is written whether supplied or not
appMultilingual_record_activity_overwrites(data, phone, lang) ==
  [data EXCEPT ![phone] = Subscriber(FALSE, lang)]

\* appMultilingual.py lines 51-59; lang is PyNone when not supplied
appMultilingual_record_activity(data, phone, lang) ==
  [data EXCEPT
     ![phone] = Subscriber(FALSE, IF Truthy(lang) THEN lang ELSE @.lang)]

(***************************************************************************)
(* str methods the webhook uses.                                           *)
(***************************************************************************)
LowerLetters ==
  <<"a", "b", "c", "d", "e", "f", "g", "h", "i", "j", "k", "l", "m",
    "n", "o", "p", "q", "r", "s", "t", "u", "v", "w", "x", "y", "z">>
UpperLetters ==
  <<"A", "B", "C", "D", "E", "F", "G", "H", "I", "J", "K", "L", "M",
    "N", "O", "P", "Q", "R", "S", "T", "U", "V", "W", "X", "Y", "Z">>
LetterIndex(letters, c) == CHOOSE k \in 1..Len(letters) : letters[k] = c
IsIn(letters, c) == \E k \in 1..Len(letters) : letters[k] = c

\* str.upper() and str.lower()
upper(s) ==
  [i \in 1..Len(s) |->
     IF IsIn(LowerLetters, s[i])
     THEN UpperLetters[LetterIndex(LowerLetters, s[i])] ELSE s[i]]
lower(s) ==
  [i \in 1..Len(s) |->
     IF IsIn(UpperLetters, s[i])
     THEN LowerLetters[LetterIndex(UpperLetters, s[i])] ELSE s[i]]

\* s.startswith(prefix)
startswith(s, prefix) ==
  Len(prefix) <= Len(s) /\ SubSeq(s, 1, Len(prefix)) = prefix

\* s[n:]
Drop(s, n) == SubSeq(s, n + 1, Len(s))

\* s.split(":")[1], for s holding a colon: the text between the first
\* colon and the next one, or the end
FirstColon(s) ==
  CHOOSE i \in 1..Len(s) : s[i] = ":" /\ \A j \in 1..(i - 1) : s[j] # ":"
UpToColon(s) ==
  IF \E i \in 1..Len(s) : s[i] = ":" THEN SubSeq(s, 1, FirstColon(s) - 1)
  ELSE s
split_1(s) == UpToColon(Drop(s, FirstColon(s)))

(***************************************************************************)
(* receive_whatsapp, finalAppTwilio.py lines 703-741.                      *)
(***************************************************************************)
\* line 710
OptOutKeywords ==
  { <<"S", "T", "O", "P">>,
    <<"S", "T", "O", "P", "A", "L", "L">>,
    <<"U", "N", "S", "U", "B", "S", "C", "R", "I", "B", "E">>,
    <<"C", "A", "N", "C", "E", "L">>,
    <<"E", "N", "D">>,
    <<"Q", "U", "I", "T">>,
    <<"J", "O", "I", "N">> }
\* line 713
OptInKeywords ==
  { <<"S", "T", "A", "R", "T">>,
    <<"U", "N", "S", "T", "O", "P">> }
\* line 726
NewsPrefix ==
  <<"m", "a", "l", "a", "r", "i", "a", " ", "n", "e", "w", "s", " ", "u", "p", "d", "a", "t", "e">>

\* request.values.get("Body", ""): what a sender can type
KeywordBodies ==
  { <<"s", "t", "o", "p">>,
    <<" ", "S", "T", "O", "P", " ">>,
    <<"S", "t", "o", "p", "A", "l", "l">>,
    <<"U", "N", "S", "U", "B", "S", "C", "R", "I", "B", "E">>,
    <<"c", "a", "n", "c", "e", "l">>,
    <<"E", "N", "D">>,
    <<"q", "u", "i", "t">>,
    <<"J", "O", "I", "N">>,
    <<"S", "T", "A", "R", "T">>,
    <<"u", "n", "s", "t", "o", "p", "\n">> }
NewsBodies ==
  { <<"m", "a", "l", "a", "r", "i", "a", " ", "n", "e", "w", "s", " ", "u", "p", "d", "a", "t", "e", " ">>,
    <<"M", "a", "l", "a", "r", "i", "a", " ", "N", "e", "w", "s", " ", "U", "p", "d", "a", "t", "e", " ", "a">> }
OtherBodies ==
  { <<"h", "e", "l", "l", "o">>,
    <<>>,
    <<"S", "T", "O", "P", " ", "N", "O", "W">> }
Bodies == KeywordBodies \cup NewsBodies \cup OtherBodies

YORUBA == <<"Y", "O", "R", "U", "B", "A">>
IGBO == <<"I", "G", "B", "O">>
HAUSA == <<"H", "A", "U", "S", "A">>

\* request.values.get("From", ""): a subscriber with a stored language and
\* an address the store has never seen
Senders == {p \in Phones : p[2] \in {"+1", "+5"}}

\* subscribers.json when a request arrives; appMultilingual.py, which uses
\* the same file name, writes the "lang" keys
StoreWithLanguages ==
  [p \in Phones |->
     CASE p[2] = "+1" -> Subscriber(FALSE, YORUBA)
       [] p[2] = "+4" -> Subscriber(TRUE, IGBO)
       [] p[2] = "+5" -> NoEntry
       [] OTHER -> Subscriber(FALSE, PyNone)]

\* what the handler leaves behind: the file, the response (500 when an
\* exception left the view function), whether messages.create was called
\* for the confirmation, and the text handed to process_message
Handled(data, text, confirmation, news) ==
  [store |-> data, response |-> [text |-> text, status |-> 200],
   confirmation |-> confirmation, news |-> news]
Unhandled(data, confirmation) ==
  [store |-> data, response |-> [text |-> "exception", status |-> 500],
   confirmation |-> confirmation, news |-> PyNone]

\* lines 721-741, after record_activity(sender)
NewsOrOk(incoming, data, success) ==
  IF startswith(lower(incoming), NewsPrefix)
  THEN IF Strip(Drop(incoming, Len(NewsPrefix))) = <<>>
       THEN Handled(data, "Please provide the news content", "none", PyNone)
       ELSE Handled(data,
                    IF success THEN "Your news has been broadcast"
                    ELSE "There was an issue broadcasting your news",
                    "none", Strip(Drop(incoming, Len(NewsPrefix))))
  ELSE Handled(data, "OK", "none", PyNone)

\* lines 709-721 on normalized = incoming.upper().  io is whether
\* subscribers.json can be read and written, create whether the
\* confirmation's messages.create succeeds, success what process_message
\* returns
Dispatch(incoming, normalized, sender, data, io, create, success) ==
  IF io = "raises" THEN Unhandled(data, "none")
  ELSE IF normalized \in OptOutKeywords
  THEN Handled(mark_unsubscribed(data, sender),
               "You have been unsubscribed.", "none", PyNone)
  ELSE IF normalized \in OptInKeywords
  THEN IF create = "raises"
       THEN Unhandled(record_activity(data, sender), "raised")
       ELSE Handled(record_activity(data, sender),
                    "You are re-subscribed.", "created", PyNone)
  ELSE NewsOrOk(incoming, record_activity(data, sender), success)

\* variant: STOP is the only opt-out keyword
Normalize_stop_only(incoming) ==
  IF upper(incoming) \in OptOutKeywords \ {<<"S", "T", "O", "P">>}
  THEN <<>> ELSE upper(incoming)

\* line 709
Normalize(incoming) == upper(incoming)

receive_whatsapp(Body, sender, data, io, create, success) ==
  Dispatch(Strip(Body), Normalize(Strip(Body)), sender, data, io, create,
           success)

\* bound on the requests of a behaviour
MaxRequests == 2

\* what the collaborators do during one request: all is well, or
\* subscribers.json cannot be read, or messages.create raises, or
\* process_message returns False
Outcome(io, create, success) ==
  [io |-> io, create |-> create, success |-> success]
Outcomes ==
  { Outcome("ok", "ok", TRUE), Outcome("raises", "ok", TRUE),
    Outcome("ok", "raises", TRUE), Outcome("ok", "ok", FALSE) }

\* one handled request, as the log keeps it
LogEntry(Body, sender, before, result) ==
  [Body |-> Body, sender |-> sender, before |-> before,
   response |-> result.response, confirmation |-> result.confirmation,
   news |-> result.news]

InboundInit ==
  /\ pc = "serving"
  /\ qa_agent = TRUE
  /\ mkr_agent = TRUE
  /\ handled = <<>>
  /\ threads = NoThreads
  /\ subscribers = StoreWithLanguages
  /\ last_sent = NoCursor
  /\ Fresh
  /\ temp_audio = {}

Served(Body, sender, result) ==
  /\ subscribers' = result.store
  /\ handled' = Append(handled, LogEntry(Body, sender, subscribers, result))

\* one POST /twilio, from the first line of the view function to its return
Receive ==
  /\ pc = "serving"
  /\ Len(handled) < MaxRequests
  /\ \E Body \in Bodies, sender \in Senders, o \in Outcomes :
       Served(Body, sender,
              receive_whatsapp(Body, sender, subscribers, o.io, o.create,
                               o.success))
  /\ UNCHANGED <<pc, config, temp_audio, threads, last_sent, content_data, attempted,
                 csv_read, args, locals, returned, stages, history>>

InboundNext == Receive

InboundSpec == InboundInit /\ [][InboundNext]_vars

\* the request handled last
LastRequest == handled[Len(handled)]

\* subscribers.json as the i-th handled request left it
StoreAfter(i) ==
  IF i = Len(handled) THEN subscribers ELSE handled[i + 1].before

\* the body, trimmed and case-folded, is one of these words
Folded(Body) == lower(Strip(Body))
IsOptOut(Body) == Folded(Body) \in {lower(k) : k \in OptOutKeywords}
IsOptIn(Body) == Folded(Body) \in {lower(k) : k \in OptInKeywords}

\* the handler got as far as its return statement
Completed(h) == h.response.status = 200
\* the handler's store update was made
StoreUpdated(h) == Completed(h) \/ h.confirmation = "raised"

\* C21: mark_unsubscribed(r) upserts r with unsubscribed = true and leaves
\* r's previously recorded language preference unchanged
C21_UnsubscribeKeepsLanguage ==
  \A i \in 1..Len(handled) :
    (IsOptOut(handled[i].Body) /\ Completed(handled[i])) =>
      /\ StoreAfter(i)[handled[i].sender].present
      /\ StoreAfter(i)[handled[i].sender].unsubscribed
      /\ StoreAfter(i)[handled[i].sender].lang
           = handled[i].before[handled[i].sender].lang

\* C28: no failure of a collaborator leaves receive_whatsapp as an
\* unhandled exception: every request gets the handler's own response
C28_NoUnhandledFault ==
  \A i \in 1..Len(handled) : Completed(handled[i])

\* C29: after a request from s whose store update was made, s is
\* unsubscribed exactly when the trimmed, case-folded body is an opt-out
\* keyword, and an opt-in keyword has the confirmation message created
C29_KeywordsSetFlag ==
  \A i \in 1..Len(handled) :
    StoreUpdated(handled[i]) =>
      /\ StoreAfter(i)[handled[i].sender].present
      /\ StoreAfter(i)[handled[i].sender].unsubscribed
           = IsOptOut(handled[i].Body)
      /\ IsOptIn(handled[i].Body) => handled[i].confirmation # "none"
      /\ ~IsOptIn(handled[i].Body) => handled[i].confirmation = "none"

\* an opt-out keyword in lower case, then a padded opt-in keyword from the
\* same sender, then anything else
C29_Witness ==
  /\ Len(handled) = 2
  /\ handled[1].sender = handled[2].sender
  /\ handled[1].Body = <<"q", "u", "i", "t">>
  /\ handled[2].Body = <<"u", "n", "s", "t", "o", "p", "\n">>
  /\ handled[2].before[handled[2].sender].unsubscribed
  /\ ~subscribers[handled[2].sender].unsubscribed
  /\ handled[2].confirmation = "created"

(***************************************************************************)
(* receive_whatsapp, appMultilingual.py lines 185-229, with get_lang,      *)
(* lines 61-63.                                                            *)
(***************************************************************************)
\* lines 20-26: the keys of LANG_CODES
LANG_CODES == {HAUSA, YORUBA, IGBO}
DEFAULT_LANG == HAUSA

\* variant: the stored preference is ignored
get_lang_default_only(data, phone) == DEFAULT_LANG

\* lines 61-63: data.get(phone, {}).get("lang", DEFAULT_LANG)
get_lang(data, phone) ==
  IF data[phone].lang = PyNone THEN DEFAULT_LANG ELSE data[phone].lang

\* line 192
LanguagePrefix ==
  <<"L", "A", "N", "G", "U", "A", "G", "E", ":">>

LanguageBodies ==
  { <<"L", "A", "N", "G", "U", "A", "G", "E", ":", "Y", "O", "R", "U", "B", "A">>,
    <<"l", "a", "n", "g", "u", "a", "g", "e", ":", " ", "i", "g", "b", "o", " ">>,
    <<"L", "A", "N", "G", "U", "A", "G", "E", ":", "K", "L", "I", "N", "G", "O", "N">>,
    <<"L", "A", "N", "G", "U", "A", "G", "E", ":">>,
    <<"L", "A", "N", "G", "U", "A", "G", "E", ":", "H", "A", "U", "S", "A", ":", "X">>,
    <<"L", "A", "N", "G", "U", "A", "G", "E", " ", "Y", "O", "R", "U", "B", "A">> }
MlBodies ==
  { <<"s", "t", "o", "p">>,
    <<"J", "O", "I", "N">>,
    <<"S", "T", "A", "R", "T">>,
    <<"u", "n", "s", "t", "o", "p", "\n">>,
    <<"h", "e", "l", "l", "o">>,
    <<>> } \cup NewsBodies \cup LanguageBodies

\* variant: any code is stored
SetLanguage_unvalidated(lang, sender, data, io) ==
  IF io = "raises" THEN Unhandled(data, "none")
  ELSE Handled(appMultilingual_record_activity(data, sender, lang),
               "Language set to", "none", PyNone)

\* variant: the code is stored first and only the reply depends on it
SetLanguage_validates_reply_only(lang, sender, data, io) ==
  IF io = "raises" THEN Unhandled(data, "none")
  ELSE Handled(appMultilingual_record_activity(data, sender, lang),
               IF lang \in LANG_CODES
               THEN "Language set to" ELSE "Invalid language.",
               "none", PyNone)

\* lines 194-198
SetLanguage(lang, sender, data, io) ==
  IF lang \in LANG_CODES
  THEN IF io = "raises" THEN Unhandled(data, "none")
       ELSE Handled(appMultilingual_record_activity(data, sender, lang),
                    "Language set to", "none", PyNone)
  ELSE Handled(data, "Invalid language.", "none", PyNone)

\* lines 229-230
Received(sender, data, io, news) ==
  IF io = "raises" THEN Unhandled(data, "none")
  ELSE Handled(appMultilingual_record_activity(data, sender, PyNone),
               "Message received.", "none", news)

\* lines 209-227: the user's news, translated and sent to each recipient
\* inside the view function.  subs is what get_subscribers returned; loop
\* is "raises" when translate, synthesize or send raises for a recipient
NewsFanOut(content, subs, sender, data, io, loop) ==
  IF content = <<>>
  THEN Handled(data, "Please provide the news content", "none", PyNone)
  ELSE IF loop = "raises" /\ subs # {} THEN Unhandled(data, "none")
  ELSE Received(sender, data, io, content)

\* lines 192-230 on normalized = body.upper().  io is whether
\* subscribers.json can be read and written, listing what
\* client.messages.list answers
MlDispatch(body, normalized, sender, data, io, listing, loop) ==
  IF startswith(normalized, LanguagePrefix)
  THEN SetLanguage(Strip(split_1(normalized)), sender, data, io)
  ELSE IF normalized \in OptOutKeywords
  THEN IF io = "raises" THEN Unhandled(data, "none")
       ELSE Handled(appMultilingual_mark_unsubscribed(data, sender),
                    "You have been unsubscribed.", "none", PyNone)
  ELSE IF normalized \in OptInKeywords
  THEN IF io = "raises" THEN Unhandled(data, "none")
       ELSE Handled(appMultilingual_record_activity(data, sender, PyNone),
                    "You are re-subscribed.", "none", PyNone)
  ELSE IF startswith(lower(body), NewsPrefix)
  THEN NewsFanOut(Strip(Drop(body, Len(NewsPrefix))),
                  IF io = "raises" THEN {} ELSE get_subscribers(listing, data),
                  sender, data, io, loop)
  ELSE Received(sender, data, io, PyNone)

appMultilingual_receive_whatsapp(Body, sender, data, io, listing, loop) ==
  MlDispatch(Strip(Body), upper(Strip(Body)), sender, data, io, listing,
             loop)

\* what the collaborators do during one request: all is well, or
\* subscribers.json cannot be read, or the fan-out raises, or
\* client.messages.list raises
MlOutcome(io, listing, loop) ==
  [io |-> io, listing |-> listing, loop |-> loop]
EveryoneListed == [ok |-> TRUE, from |-> Phones]
MlRequestOutcomes ==
  { MlOutcome("ok", EveryoneListed, "ok"),
    MlOutcome("raises", EveryoneListed, "ok"),
    MlOutcome("ok", EveryoneListed, "raises"),
    MlOutcome("ok", Failed, "raises") }

MlInboundInit ==
  /\ pc = "ml_serving"
  /\ qa_agent = FALSE
  /\ mkr_agent = FALSE
  /\ handled = <<>>
  /\ threads = NoThreads
  /\ subscribers = StoreWithLanguages
  /\ last_sent = NoCursor
  /\ Fresh
  /\ temp_audio = {}

\* one POST /twilio, from the first line of the view function to its return
MlReceive ==
  /\ pc = "ml_serving"
  /\ Len(handled) < MaxRequests
  /\ \E Body \in MlBodies, sender \in Senders, o \in MlRequestOutcomes :
       Served(Body, sender,
              appMultilingual_receive_whatsapp(Body, sender, subscribers,
                                               o.io, o.listing, o.loop))
  /\ UNCHANGED <<pc, config, temp_audio, threads, last_sent, content_data, attempted,
                 csv_read, args, locals, returned, stages, history>>

MlInboundNext == MlReceive

MlInboundSpec == MlInboundInit /\ [][MlInboundNext]_vars


\* the sender named "+n"
Phone(n) == CHOOSE p \in Phones : p[2] = n

\* in appMultilingual.py an opt-out keeps the sender's language
C21_AppMultilingualWitness ==
  /\ Len(handled) = 1
  /\ IsOptOut(handled[1].Body)
  /\ handled[1].before[handled[1].sender].lang = YORUBA
  /\ subscribers[handled[1].sender] = Subscriber(TRUE, YORUBA)

\* C22: an opt-out keyword followed by an opt-in keyword from a recipient
\* with the stored language L leaves unsubscribed = false and language L
C22_OptOutThenOptInKeepsLanguage ==
  \A i \in 1..(Len(handled) - 1) :
    ( /\ handled[i].sender = handled[i + 1].sender
      /\ IsOptOut(handled[i].Body) /\ Completed(handled[i])
      /\ IsOptIn(handled[i + 1].Body) /\ Completed(handled[i + 1])
      /\ handled[i].before[handled[i].sender].lang # PyNone ) =>
        /\ StoreAfter(i + 1)[handled[i].sender].present
        /\ ~StoreAfter(i + 1)[handled[i].sender].unsubscribed
        /\ StoreAfter(i + 1)[handled[i].sender].lang
             = handled[i].before[handled[i].sender].lang

C22_Witness ==
  /\ Len(handled) = 2
  /\ handled[1].sender = Phone("+1") /\ handled[2].sender = Phone("+1")
  /\ handled[1].Body = <<"s", "t", "o", "p">> /\ Completed(handled[1])
  /\ handled[2].Body = <<"u", "n", "s", "t", "o", "p", "\n">>
  /\ Completed(handled[2])
  /\ handled[2].before[Phone("+1")] = Subscriber(TRUE, YORUBA)
  /\ subscribers[Phone("+1")] = Subscriber(FALSE, YORUBA)

\* the body is LANGUAGE:<code>, in any case and padded; its code
IsLanguageRequest(Body) == startswith(Folded(Body), lower(LanguagePrefix))
CodeOf(Body) ==
  Strip(UpToColon(Drop(upper(Strip(Body)), Len(LanguagePrefix))))

\* the requests whose handler called record_activity, and the language
\* argument of the call (PyNone: none supplied)
RecordedActivity(h) ==
  /\ Completed(h)
  /\ h.response.text
       \in {"Language set to", "You are re-subscribed.", "Message received."}
LangArgument(h) ==
  IF h.response.text = "Language set to" THEN CodeOf(h.Body) ELSE PyNone

\* C23: record_activity(r, lang) upserts r with unsubscribed = false, sets
\* r's language to lang when one is supplied, leaves it as stored when none
\* is, and leaves every other recipient's record unchanged
C23_RecordActivityFrame ==
  \A i \in 1..Len(handled) :
    RecordedActivity(handled[i]) =>
      /\ StoreAfter(i)[handled[i].sender].present
      /\ ~StoreAfter(i)[handled[i].sender].unsubscribed
      /\ StoreAfter(i)[handled[i].sender].lang
           = IF LangArgument(handled[i]) # PyNone
             THEN LangArgument(handled[i])
             ELSE handled[i].before[handled[i].sender].lang
      /\ \A p \in Phones \ {handled[i].sender} :
           StoreAfter(i)[p] = handled[i].before[p]

\* a new sender sets a language, then sends an ordinary message
C23_Witness ==
  /\ Len(handled) = 2
  /\ handled[1].sender = Phone("+5") /\ handled[2].sender = Phone("+5")
  /\ ~handled[1].before[Phone("+5")].present
  /\ LangArgument(handled[1]) = IGBO
  /\ handled[2].before[Phone("+5")] = Subscriber(FALSE, IGBO)
  /\ handled[2].response.text = "Message received."
  /\ subscribers[Phone("+5")] = Subscriber(FALSE, IGBO)

\* C24: LANGUAGE:<code> with a recognized code makes get_lang return the
\* code; with an unrecognized code the stored preference is unchanged and
\* the reply is a rejection; get_lang of a recipient with no stored
\* preference is the default language
C24_LanguageCommand ==
  /\ \A i \in 1..Len(handled) :
       (IsLanguageRequest(handled[i].Body) /\ Completed(handled[i])) =>
         IF CodeOf(handled[i].Body) \in LANG_CODES
         THEN /\ get_lang(StoreAfter(i), handled[i].sender)
                   = CodeOf(handled[i].Body)
              /\ handled[i].response.text = "Language set to"
         ELSE /\ StoreAfter(i)[handled[i].sender].lang
                   = handled[i].before[handled[i].sender].lang
              /\ handled[i].response.text = "Invalid language."
  /\ \A p \in Phones :
       subscribers[p].lang = PyNone => get_lang(subscribers, p) = DEFAULT_LANG

\* a new sender asks for Igbo, then for a language that is not offered
C24_Witness ==
  /\ Len(handled) = 2
  /\ handled[1].sender = Phone("+5") /\ handled[2].sender = Phone("+5")
  /\ get_lang(handled[1].before, Phone("+5")) = DEFAULT_LANG
  /\ CodeOf(handled[1].Body) = IGBO /\ Completed(handled[1])
  /\ CodeOf(handled[2].Body) = <<"K", "L", "I", "N", "G", "O", "N">>
  /\ handled[2].response.text = "Invalid language."
  /\ get_lang(subscribers, Phone("+5")) = IGBO


(***************************************************************************)
(* The entry points' results.                                              *)
(***************************************************************************)
\* the run entered through auto_broadcast
ScheduledRun == stages # <<>> /\ stages[1] = "ACQUIRE_CONTENT"

\* C27: auto_broadcast and process_message end by returning True or False,
\* never by raising, and return False when a collaborator raised
C27_EntryPointsReturnBoolean ==
  /\ returned \in {"none", "True", "False"}
  /\ pc = "done" => returned \in {"True", "False"}
  /\ error => pc = "done" /\ returned = "False"

\* the synthesizer raised during a scheduled run that the translator and
\* the first check had let through
C27_Witness ==
  /\ pc = "done"
  /\ ScheduledRun
  /\ error
  /\ nTranslate = 1 /\ nSynth = 1 /\ mp3_filename = NoAudio
  /\ returned = "False"


(***************************************************************************)
(* OrchestratorAgent with the retriever it is given, lines 477-494         *)
(* (dependency injection) and 594-600: mkr_agent is any object with a      *)
(* fetch_malaria_content method, whose answer is None or an item.          *)
(***************************************************************************)
InjectedAnswers == {NoItem, [message |-> <<"A">>, source |-> "WHO"]}

\* what fetch_malaria_content handed to line 596
Answered(answer) ==
  [item |-> answer, attempted |-> <<Call("ContentSource", answer # NoItem)>>]

OrchestratorInit ==
  /\ pc = "idle"
  /\ qa_agent \in BOOLEAN
  /\ mkr_agent = TRUE
  /\ subscribers = InitialStore
  /\ Quiet
  /\ last_sent = NoCursor
  /\ Fresh
  /\ temp_audio = {}

\* line 508: content_data = self._get_broadcast_content()
AutoBroadcastInjected ==
  /\ pc = "idle"
  /\ \E answer \in InjectedAnswers, csv \in CsvFiles :
       Acquired(BroadcastContent(mkr_agent, Answered(answer),
                                 CyclicCsv(csv, last_sent), csv, 0,
                                 last_sent))
  /\ pc' = "acquired"
  /\ stages' = <<"ACQUIRE_CONTENT">>
  /\ UNCHANGED <<config, temp_audio, webhook, subscribers, args, locals, returned,
                 history>>

\* lines 513-517, the record of the retriever's answer kept
ProcessInjectedContent ==
  /\ pc = "acquired"
  /\ content_data # NoItem
  /\ en_text' = content_data.message
  /\ source' = content_data.source
  /\ pc' = "translate"
  /\ UNCHANGED <<config, temp_audio, webhook, subscribers, last_sent, content_data,
                 attempted, csv_read, locals, returned, stages, history>>

OrchestratorNext ==
  \/ AutoBroadcastInjected
  \/ NoContent
  \/ ProcessInjectedContent
  \/ Translate
  \/ CheckTranslation
  \/ RetryTranslate
  \/ RecheckTranslation
  \/ Synthesize
  \/ CheckAudio
  \/ RetrySynthesize
  \/ RecheckAudio
  \/ Deliver
  \/ SendTo
  \/ Delivered
  \/ NextRun

OrchestratorSpec == OrchestratorInit /\ [][OrchestratorNext]_vars

\* the retriever returned nothing to this run
SourceReturnedNothing == attempted = <<Call("ContentSource", FALSE)>>
\* the run reports failure and has called none of the three collaborators
AbortedUntouched ==
  /\ nTranslate = 0 /\ nSynth = 0 /\ broadcasts = 0 /\ sent = {}
  /\ pc \in {"acquired", "done"}
  /\ pc = "done" => returned = "False"

\* C30 as stated: when fetch_malaria_content returns nothing the run aborts
\* without invoking the translator, the synthesizer or the delivery channel
C30_AsStated == SourceReturnedNothing => AbortedUntouched

\* C30: when fetch_malaria_content returns nothing and the orchestrator's
\* own read of messages.csv yields nothing either, the run aborts without
\* invoking the translator, the synthesizer or the delivery channel
C30_NoContentAborts ==
  (SourceReturnedNothing /\ content_data = NoItem) => AbortedUntouched

C30_Witness ==
  /\ pc = "done"
  /\ SourceReturnedNothing
  /\ content_data = NoItem
  /\ returned = "False"
  /\ nTranslate = 0


(***************************************************************************)
(* Two callers of the subscriber store at once.  The Flask development     *)
(* server handles requests in threads, and mark_unsubscribed and           *)
(* record_activity are load_subscribers, an update of the loaded dict,     *)
(* save_subscribers, without a lock.  The read and the write of the file   *)
(* are each taken as one step.                                             *)
(***************************************************************************)
Callers == {1, 2}

\* the store calls a request can make
StoreCalls ==
  { [app |-> "finalAppTwilio", name |-> "mark_unsubscribed", lang |-> PyNone],
    [app |-> "finalAppTwilio", name |-> "record_activity", lang |-> PyNone],
    [app |-> "appMultilingual", name |-> "mark_unsubscribed",
     lang |-> PyNone],
    [app |-> "appMultilingual", name |-> "record_activity", lang |-> PyNone],
    [app |-> "appMultilingual", name |-> "record_activity", lang |-> IGBO] }

\* the dict the call saves, from the dict it loaded
Updated(call, data, phone) ==
  CASE call.app = "finalAppTwilio" /\ call.name = "mark_unsubscribed" ->
         mark_unsubscribed(data, phone)
    [] call.app = "finalAppTwilio" /\ call.name = "record_activity" ->
         record_activity(data, phone)
    [] call.app = "appMultilingual" /\ call.name = "mark_unsubscribed" ->
         appMultilingual_mark_unsubscribed(data, phone)
    [] OTHER -> appMultilingual_record_activity(data, phone, call.lang)

NotLoaded == [p \in Phones |-> NoEntry]
StoreCaller(call, phone) ==
  [pc |-> "load", call |-> call, phone |-> phone, data |-> NotLoaded]

\* two requests of one program, from different senders
StoreRaceInit ==
  /\ pc = "racing"
  /\ qa_agent = TRUE
  /\ mkr_agent = TRUE
  /\ handled = <<>>
  /\ threads \in
       { t \in [Callers -> {StoreCaller(c, p) : c \in StoreCalls,
                                                 p \in Senders}] :
           t[1].phone # t[2].phone /\ t[1].call.app = t[2].call.app }
  /\ subscribers = StoreWithLanguages
  /\ last_sent = NoCursor
  /\ Fresh
  /\ temp_audio = {}

\* data = load_subscribers()
LoadSubscribers ==
  /\ pc = "racing"
  /\ \E t \in Callers :
       /\ threads[t].pc = "load"
       /\ threads' = [threads EXCEPT ![t].pc = "save",
                                     ![t].data = subscribers]
  /\ UNCHANGED <<pc, config, temp_audio, handled, subscribers, last_sent, content_data,
                 attempted, csv_read, args, locals, returned, stages,
                 history>>

\* the update of data, then save_subscribers(data)
SaveSubscribers ==
  /\ pc = "racing"
  /\ \E t \in Callers :
       /\ threads[t].pc = "save"
       /\ subscribers' =
            Updated(threads[t].call, threads[t].data, threads[t].phone)
       /\ threads' = [threads EXCEPT ![t].pc = "done"]
  /\ UNCHANGED <<pc, config, temp_audio, handled, last_sent, content_data, attempted,
                 csv_read, args, locals, returned, stages, history>>

StoreRaceNext ==
  \/ LoadSubscribers
  \/ SaveSubscribers

StoreRaceSpec == StoreRaceInit /\ [][StoreRaceNext]_vars

AllDone == \A t \in DOMAIN threads : threads[t].pc = "done"

\* the store shows the call of caller t
Reflected(t) ==
  /\ subscribers[threads[t].phone].present
  /\ subscribers[threads[t].phone].unsubscribed
       = (threads[t].call.name = "mark_unsubscribed")
  /\ threads[t].call.lang # PyNone =>
       subscribers[threads[t].phone].lang = threads[t].call.lang

\* C25: when two callers have made their store mutations for different
\* recipients concurrently, the persisted store reflects both mutations and
\* holds both recipients
C25_NoLostUpdate ==
  AllDone => \A t \in DOMAIN threads : Reflected(t)

(***************************************************************************)
(* Two consumptions of the tabular file at once: the scheduled jobs of two *)
(* of the programs started in one directory share messages.csv and         *)
(* last_sent.txt.  Each reads the cursor and computes idx (line 612, or    *)
(* appTwilio.py lines 89-90), then writes idx (613, or 91) and returns the *)
(* row at idx.                                                             *)
(***************************************************************************)
CursorCaller(app) == [pc |-> "read", app |-> app, idx |-> 0, item |-> NoItem]

CursorRaceInit ==
  /\ pc = "racing"
  /\ qa_agent = TRUE
  /\ mkr_agent = FALSE
  /\ handled = <<>>
  /\ threads \in
       [Callers -> {CursorCaller(a) : a \in {"finalAppTwilio", "appTwilio"}}]
  /\ subscribers = InitialStore
  /\ \E n \in 1..MaxRows :
       /\ last_sent \in {NoCursor}
            \cup {[exists |-> TRUE, value |-> v] : v \in 0..(n - 1)}
       /\ csv_read = TabularRead("race", last_sent, FullCsv(n).rows, 0)
  /\ content_data = NoItem
  /\ attempted = <<>>
  /\ en_text = PyNone
  /\ source = <<>>
  /\ ha_text = PyNone
  /\ mp3_filename = NoAudio
  /\ full_text = NoFullText
  /\ audio_url = NoUrl
  /\ all_msgs = <<>>
  /\ recipients = {}
  /\ pending = {}
  /\ returned = "none"
  /\ nTranslate = 0
  /\ nSynth = 0
  /\ synth_input = PyNone
  /\ trChecks = <<>>
  /\ auChecks = <<>>
  /\ stages = <<>>
  /\ error = FALSE
  /\ broadcasts = 0
  /\ sent = {}
  /\ create_calls = {}
  /\ temp_audio = {}

\* the index a caller computes from the cursor file it finds
NextIdx(app, cursor, n) ==
  IF app = "appTwilio" THEN appTwilio_idx(cursor, n) ELSE cyclic_idx(cursor, n)

\* line 612, the read of last_sent.txt
ReadCursor ==
  /\ pc = "racing"
  /\ \E t \in Callers :
       /\ threads[t].pc = "read"
       /\ threads' =
            [threads EXCEPT
               ![t].pc = "write",
               ![t].idx = NextIdx(threads[t].app, last_sent,
                                  Len(csv_read.df))]
  /\ UNCHANGED <<pc, config, temp_audio, handled, subscribers, last_sent, content_data,
                 attempted, csv_read, args, locals, returned, stages,
                 history>>

\* lines 613-619: the write of last_sent.txt and the row returned
WriteCursor ==
  /\ pc = "racing"
  /\ \E t \in Callers :
       /\ threads[t].pc = "write"
       /\ last_sent' = [exists |-> TRUE, value |-> threads[t].idx]
       /\ threads' =
            [threads EXCEPT
               ![t].pc = "done",
               ![t].item = csv_read.df[threads[t].idx + 1]]
  /\ UNCHANGED <<pc, config, temp_audio, handled, subscribers, content_data, attempted,
                 csv_read, args, locals, returned, stages, history>>

CursorRaceNext ==
  \/ ReadCursor
  \/ WriteCursor

CursorRaceSpec == CursorRaceInit /\ [][CursorRaceNext]_vars

\* the i-th row index after the cursor the race started from
RowAfterStart(i) ==
  ((IF csv_read.found.exists THEN csv_read.found.value + 1 ELSE 0) + i - 1)
    % Len(csv_read.df)

\* C26: two concurrent consumptions leave the cursor advanced by two
\* (mod N) and return the two rows after the starting cursor, one each
C26_CursorSerialized ==
  AllDone =>
    /\ last_sent = [exists |-> TRUE, value |-> RowAfterStart(2)]
    /\ {threads[t].idx : t \in DOMAIN threads} = {RowAfterStart(1), RowAfterStart(2)}

(***************************************************************************)
(* TTSAgent.synthesize step by step, lines 86-95 (finalAppTwilio.py) and   *)
(* 86-102 (appMultilingual.py): the model's waveform is written to         *)
(* temp_audio/<uuid>.wav, converted to <uuid>.mp3, and the WAV is removed  *)
(* by an os.remove that follows the conversion; there is no try/finally.   *)
(* A file is [id, ext], id standing for the uuid of the call that wrote    *)
(* it.  The caller is process_message: an exception reaches its except     *)
(* branch, a returned artifact goes to the audio gate, which passes or     *)
(* asks for one more call or aborts.                                       *)
(***************************************************************************)
MaxSynthCalls == 3

Wav(id) == [id |-> id, ext |-> "wav"]
Mp3(id) == [id |-> id, ext |-> "mp3"]

SynthesisInit ==
  /\ pc = "tts_idle"
  /\ qa_agent = TRUE
  /\ mkr_agent = FALSE
  /\ subscribers = InitialStore
  /\ Quiet
  /\ last_sent = NoCursor
  /\ Fresh
  /\ temp_audio = {}

\* line 548 or 559: self.tts_agent.synthesize(ha_text)
SynthesizeCalled ==
  /\ pc = "tts_idle"
  /\ nSynth < MaxSynthCalls
  /\ nSynth' = nSynth + 1
  /\ pc' = "tts_model"
  /\ error' = FALSE
  /\ returned' = "none"
  /\ UNCHANGED <<config, temp_audio, webhook, subscribers, last_sent,
                 content_data, attempted, csv_read, args, locals, stages,
                 nTranslate, synth_input, trChecks, auChecks, broadcasts,
                 sent, create_calls>>

\* lines 87-90: the tokenizer and the model; a raise leaves no file
RunModel ==
  /\ pc = "tts_model"
  /\ \E raises \in BOOLEAN :
       pc' = IF raises THEN "tts_raised" ELSE "tts_write"
  /\ UNCHANGED <<config, temp_audio, webhook, subscribers, last_sent,
                 content_data, attempted, csv_read, args, locals, returned,
                 stages, history>>

\* lines 91-92: sf.write(wav_path, ...)
WriteWav ==
  /\ pc = "tts_write"
  /\ temp_audio' = temp_audio \cup {Wav(nSynth)}
  /\ pc' = "tts_convert"
  /\ UNCHANGED <<config, webhook, subscribers, last_sent, content_data,
                 attempted, csv_read, args, locals, returned, stages,
                 history>>

\* line 93: AudioSegment.from_wav(wav_path).export(mp3_path, format="mp3");
\* a raise (no ffmpeg, disk full) leaves synthesize at once
ExportMp3 ==
  /\ pc = "tts_convert"
  /\ \E raises \in BOOLEAN :
       IF raises
       THEN pc' = "tts_raised" /\ UNCHANGED temp_audio
       ELSE /\ pc' = "tts_remove"
            /\ temp_audio' = temp_audio \cup {Mp3(nSynth)}
  /\ UNCHANGED <<config, webhook, subscribers, last_sent, content_data,
                 attempted, csv_read, args, locals, returned, stages,
                 history>>

\* lines 94-95: os.remove(wav_path); return os.path.basename(mp3_path)
RemoveWav ==
  /\ pc = "tts_remove"
  /\ temp_audio' = temp_audio \ {Wav(nSynth)}
  /\ \E file \in {f \in AudioFiles : f.exists} :
       mp3_filename' = [id |-> nSynth, file |-> file]
  /\ pc' = "tts_returned"
  /\ UNCHANGED <<config, webhook, subscribers, last_sent, content_data,
                 attempted, csv_read, args, ha_text, full_text, audio_url,
                 all_msgs, recipients, pending, returned, stages, history>>

\* lines 555-562 and 581-583: the audio gate's verdict on the returned
\* artifact (a failed one aborts the pipeline or asks for another call),
\* or the except branch of process_message
SynthesizeDone ==
  /\ pc \in {"tts_returned", "tts_raised"}
  /\ pc' = "tts_idle"
  /\ IF pc = "tts_raised"
     THEN error' = TRUE /\ returned' = "False"
     ELSE /\ \E passed \in BOOLEAN :
               returned' = IF passed THEN "True" ELSE "False"
          /\ UNCHANGED error
  /\ UNCHANGED <<config, temp_audio, webhook, subscribers, last_sent,
                 content_data, attempted, csv_read, args, locals, stages,
                 nTranslate, nSynth, synth_input, trChecks, auChecks,
                 broadcasts, sent, create_calls>>

SynthesisNext ==
  \/ SynthesizeCalled
  \/ RunModel
  \/ WriteWav
  \/ ExportMp3
  \/ RemoveWav
  \/ SynthesizeDone

SynthesisSpec == SynthesisInit /\ [][SynthesisNext]_vars

\* a synthesize call is between its sf.write and its return or raise
Converting == pc \in {"tts_convert", "tts_remove"}

\* C31: after every synthesize call has finished (returned, raised, or the
\* pipeline went on to abort at the audio gate) the WAV file the call wrote
\* is gone: the only WAV in temp_audio is that of a call in progress
C31_NoWavAfterSynthesis ==
  \A f \in temp_audio :
    f.ext = "wav" => Converting /\ f.id = nSynth

\* the addresses that are keys of subscribers.json
Keys(data) == {p \in Phones : data[p].present}

\* C32: no store operation removes a recipient: every key of the file
\* before a request is a key after it, and mark_unsubscribed and
\* record_activity of either program, applied to the file for any address,
\* keep every key (the opt-out sets the flag and nothing else)
C32_NoRecipientRemoved ==
  /\ \A i \in 1..Len(handled) :
       Keys(handled[i].before) \subseteq Keys(StoreAfter(i))
  /\ \A phone \in Phones :
       /\ Keys(subscribers) \subseteq Keys(mark_unsubscribed(subscribers, phone))
       /\ Keys(subscribers) \subseteq Keys(record_activity(subscribers, phone))
       /\ Keys(subscribers) \subseteq
            Keys(appMultilingual_mark_unsubscribed(subscribers, phone))
       /\ \A lang \in LANG_CODES \cup {PyNone} :
            Keys(subscribers) \subseteq
              Keys(appMultilingual_record_activity(subscribers, phone, lang))
       /\ mark_unsubscribed(subscribers, phone)[phone].unsubscribed

\* a new sender's first message is an opt-out, then another sender opts
\* out: both are keys of the file, flagged, with every key it had before
C32_Witness ==
  /\ Len(handled) = 2
  /\ handled[1].sender # handled[2].sender
  /\ IsOptOut(handled[1].Body) /\ IsOptOut(handled[2].Body)
  /\ Completed(handled[1]) /\ Completed(handled[2])
  /\ ~handled[1].before[handled[1].sender].present
  /\ Keys(subscribers) = Phones
  /\ \A i \in 1..2 : subscribers[handled[i].sender].unsubscribed

CheckStates ==
  {"check_translation", "retry_translate", "recheck_translation",
   "check_audio", "retry_synthesize", "recheck_audio"}

\* C33: without a quality gate process_message never enters a check state:
\* no validator runs, the translator and the synthesizer are each invoked
\* once and no more, and once the synthesizer has returned delivery is
\* invoked and the run succeeds, whatever was translated or synthesized
C33_NoGateSkipsChecks ==
  ~qa_agent =>
    /\ pc \notin CheckStates
    /\ trChecks = <<>> /\ auChecks = <<>>
    /\ nTranslate <= 1 /\ nSynth <= 1
    /\ (pc \in {"deliver", "sending"} \/ broadcasts = 1)
         => nTranslate = 1 /\ nSynth = 1
    /\ (pc = "sending" \/ (pc = "done" /\ nSynth = 1 /\ ~error))
         => broadcasts = 1
    /\ (pc = "done" /\ nSynth = 1 /\ ~error) => returned = "True"

\* a blank translation and a missing mp3, which both gates would reject,
\* were delivered
C33_Witness ==
  /\ ~qa_agent
  /\ pc = "done"
  /\ returned = "True"
  /\ nTranslate = 1 /\ nSynth = 1
  /\ broadcasts = 1
  /\ sent # {}
  /\ ~validate_translation(en_text, full_text.ha)
  /\ ~validate_audio(mp3_filename.file)

\* delivery_agent.broadcast has been called in this run
ReachedDelivery == broadcasts = 1

\* C34: in a run that reaches delivery, the synthesizer's last input is the
\* most recent translation, the delivered text carries that translation,
\* and the delivered URL names the artifact of the last synthesizer call
C34_DeliversLatestArtifacts ==
  ReachedDelivery =>
    /\ synth_input = ha_text
    /\ full_text.ha = ha_text
    /\ full_text.en = en_text
    /\ mp3_filename.id = nSynth
    /\ audio_url.name = nSynth
    /\ (Len(trChecks) = 2 => validate_translation(en_text, full_text.ha))
    /\ (Len(auChecks) = 2 => validate_audio(mp3_filename.file))

\* both stages were retried: the first translation was blank and the first
\* artifact missing, and the second of each was delivered
C34_Witness ==
  /\ ReachedDelivery
  /\ trChecks = <<FALSE, TRUE>>
  /\ auChecks = <<FALSE, TRUE>>
  /\ nTranslate = 2 /\ nSynth = 2
  /\ full_text.ha = <<"h", "a">>
  /\ synth_input = <<"h", "a">>
  /\ audio_url.name = 2
  /\ sent # {}

\* both gates exist and the last verdict of each was a pass
BothGatesPassed == qa_agent /\ Passed(trChecks) /\ Passed(auChecks)

C38_NoRecipientWitness ==
  /\ BothGatesPassed
  /\ pc = "done"
  /\ returned = "True"
  /\ recipients = {}
  /\ create_calls = {}

\* the fan-out has visited this recipient and its text messages.create
\* raised
TextSendFailed(to) ==
  /\ to \in recipients \ pending
  /\ <<to, "text">> \in create_calls
  /\ <<to, "text">> \notin sent

\* C35: the text send and the media send to a recipient fail independently:
\* when the text send to a recipient has failed, the media send to that
\* recipient has been attempted all the same
C35_MediaSendAttemptedAfterTextFailure ==
  \A to \in recipients :
    TextSendFailed(to) => <<to, "media">> \in create_calls

\* C36: every inbound message that is handled, whatever its body, leaves
\* its sender a key of subscribers.json, with the flag the body asks for
C36_EveryMessageRecordsSender ==
  \A i \in 1..Len(handled) :
    Completed(handled[i]) =>
      /\ StoreAfter(i)[handled[i].sender].present
      /\ StoreAfter(i)[handled[i].sender].unsubscribed
           = IsOptOut(handled[i].Body)

\* C40: in appMultilingual.py every stored language preference is a key of
\* LANG_CODES after any sequence of inbound messages, so get_lang(r) is a
\* key of LANG_CODES for every address r and LANG_CODES[get_lang(r)] in
\* the broadcast loop raises no KeyError
C40_StoredLanguagesRecognized ==
  /\ \A r \in Phones :
       /\ subscribers[r].lang # PyNone => subscribers[r].lang \in LANG_CODES
       /\ get_lang(subscribers, r) \in LANG_CODES
  /\ \A i \in 1..Len(handled), r \in Phones :
       get_lang(handled[i].before, r) \in LANG_CODES

\* one sender asks for a language that is not offered, a new sender asks
\* for Igbo in lower case: three languages are in use and all are offered
C40_Witness ==
  /\ Len(handled) = 2
  /\ handled[1].sender = Phone("+1") /\ handled[2].sender = Phone("+5")
  /\ IsLanguageRequest(handled[1].Body)
  /\ CodeOf(handled[1].Body) \notin LANG_CODES
  /\ IsLanguageRequest(handled[2].Body)
  /\ handled[2].Body[1] = "l" /\ CodeOf(handled[2].Body) = IGBO
  /\ {get_lang(subscribers, r) : r \in Phones} = LANG_CODES
  /\ get_lang(subscribers, Phone("+1")) = YORUBA
  /\ get_lang(subscribers, Phone("+5")) = IGBO

\* the run's content is a row of the orchestrator's cyclic read
TookCyclicRow == csv_read.by = "orchestrator"

\* C39: the cursor is persisted when the row is acquired, before the
\* translator runs, and nothing later in the run changes it: from the
\* acquisition to the end of the run, failed or not, last_sent.txt holds
\* the index of the run's row, which is the one after the cursor it found,
\* so the next run finds this row's index and takes the row after it
C39_CursorConsumedAtAcquisition ==
  TookCyclicRow =>
    /\ last_sent = [exists |-> TRUE, value |-> csv_read.idx]
    /\ csv_read.idx = Advanced(csv_read.found, Len(csv_read.df))
    /\ pc = "acquired" => nTranslate = 0 /\ nSynth = 0 /\ broadcasts = 0

\* a run took the row after the one an earlier run had consumed and then
\* failed in the pipeline, after acquisition: the cursor stays on its row
C39_Witness ==
  /\ TookCyclicRow
  /\ pc = "done"
  /\ returned = "False"
  /\ nTranslate >= 1
  /\ broadcasts = 0
  /\ Len(csv_read.df) > 1
  /\ csv_read.found.exists
  /\ last_sent.value = (csv_read.found.value + 1) % Len(csv_read.df)
  /\ last_sent # csv_read.found

(***************************************************************************)
(* A fan-out and the webhook at once.  process_message has passed its      *)
(* gates and is at line 564; Flask serves POST /twilio on other threads    *)
(* while DeliveryAgent.broadcast (112-122) lists the recipients once, at   *)
(* line 113, and then loops over that list.                                *)
(***************************************************************************)
FanOutInit ==
  /\ pc = "deliver"
  /\ qa_agent = FALSE
  /\ mkr_agent = TRUE
  /\ handled = <<>>
  /\ threads = NoThreads
  /\ subscribers = StoreWithLanguages
  /\ last_sent = NoCursor
  /\ content_data = NoItem
  /\ attempted = <<>>
  /\ csv_read = NoRead
  /\ en_text \in UserTexts
  /\ source = <<"user:", Phone("+1")>>
  /\ ha_text = <<"h", "a">>
  /\ mp3_filename = [id |-> 1, file |-> AudioFile(TRUE, 5000, TRUE, MinAudioMs)]
  /\ full_text = NoFullText
  /\ audio_url = NoUrl
  /\ all_msgs = <<>>
  /\ recipients = {}
  /\ pending = {}
  /\ returned = "none"
  /\ nTranslate = 1
  /\ nSynth = 1
  /\ synth_input = <<"h", "a">>
  /\ trChecks = <<>>
  /\ auChecks = <<>>
  /\ stages = <<"TRANSLATE", "SYNTHESIZE">>
  /\ error = FALSE
  /\ broadcasts = 0
  /\ sent = {}
  /\ create_calls = {}
  /\ temp_audio = {}

\* one POST /twilio served while the fan-out is at any point: an opt-out
\* or an opt-in, with subscribers.json and the confirmation in order
ReceiveDuringFanOut ==
  /\ pc \in {"deliver", "sending"}
  /\ Len(handled) < MaxRequests
  /\ \E Body \in {<<"s", "t", "o", "p">>, <<"S", "T", "A", "R", "T">>},
        sender \in Phones :
       Served(Body, sender,
              receive_whatsapp(Body, sender, subscribers, "ok", "created",
                               TRUE))
  /\ UNCHANGED <<pc, config, temp_audio, threads, last_sent, content_data,
                 attempted, csv_read, args, locals, returned, stages,
                 history>>

FanOutNext ==
  \/ Deliver
  \/ SendTo
  \/ Delivered
  \/ ReceiveDuringFanOut

FanOutSpec == FanOutInit /\ [][FanOutNext]_vars

\* C37: whatever the interleaving of inbound requests and a fan-out, no
\* message goes to a recipient whose persisted record says unsubscribed:
\* every recipient the loop has still to send to is subscribed, an opt-out
\* persisted during the fan-out taking effect for the remaining sends
C37_NoSendAfterOptOut ==
  pc = "sending" => \A to \in pending : ~subscribers[to].unsubscribed

=============================================================================
